---- MODULE Spec2Model ----
(***************************************************************************)
(* A model of the local hybrid document search engine:                     *)
(*   - the BFS streaming indexer (search/indexer.py) writing to the        *)
(*     SQLite catalog and the vector store (search/storage.py),            *)
(*   - the hybrid retriever (search/retriever.py) and the search API       *)
(*     (search/api.py).                                                    *)
(*                                                                         *)
(* Text is modelled at the level of characters: a byte string or a str is  *)
(* a sequence of one-character symbols.  Hash functions (sha1, sha256,     *)
(* uuid5) are modelled as injective: a digest is a tagged copy of its      *)
(* input.  Floating point scores are modelled as exact rationals.          *)
(***************************************************************************)
EXTENDS Integers, Sequences, FiniteSets, TLC

\* ------------------------------------------------------------------ bounds
MaxRuns == 2        \* run_complete_index invocations explored
MaxEdits == 1       \* file modifications explored between runs
MaxTokens == 2      \* config index.max_tokens of the modelled deployment
Overlap == 1        \* config index.overlap of the modelled deployment
BigSlice == 8       \* the larger of the two max_items_per_slice values explored
MaxSlices == 5      \* single run_bfs_slice calls explored
MaxSymlinks == 2    \* symbolic links the system follows in one path (40 on Linux)
LongText == 210     \* length of the long chunk texts snippets are made of
MaxWords == 5       \* most tokens of a text given to the chunker alone
MaxChunkTokens == 4 \* largest index.max_tokens the chunker alone is given
MaxRadius == 250    \* largest snippet_radius explored
MaxTicks == 1       \* cache lifetimes the clock is advanced by
MaxChunks == 3      \* length of the scored-chunk lists given to dedupe_by_file
MaxPerFile == 2     \* largest max_results_per_file explored
MaxCacheSize == 2   \* largest configured search.cache_size explored
MaxPage == 3        \* largest page number asked for
MaxPerPage == 2     \* largest per_page asked for when paging

\* ----------------------------------------------------------- small helpers
Min(a, b) == IF a < b THEN a ELSE b

Max(a, b) == IF a > b THEN a ELSE b

\* Python's None (a value no text, digest or record equals).
None == <<"None">>

Range(s) == {s[i] : i \in DOMAIN s}

\* ------------------------------------------------------------- characters
\* str.split() and str.strip() treat these as whitespace.
Whitespace == {" ", "\n", "\r", "\t"}

\* A byte that is not valid UTF-8 (dropped by errors='ignore').
BadByte == "\\xff"

\* The binary structure of a PDF file (objects, streams): not page text.
PdfBinary == "%"

\* str.lower(), character by character.
lower_char(c) == IF c = "A" THEN "a" ELSE IF c = "B" THEN "b" ELSE c

lower(s) == [i \in DOMAIN s |-> lower_char(s[i])]

\* str.strip(): leading and trailing whitespace removed.
RECURSIVE lstrip(_)
lstrip(s) == IF s # <<>> /\ Head(s) \in Whitespace THEN lstrip(Tail(s)) ELSE s

RECURSIVE rstrip(_)
rstrip(s) ==
    IF s # <<>> /\ s[Len(s)] \in Whitespace
    THEN rstrip(SubSeq(s, 1, Len(s) - 1)) ELSE s

strip(s) == rstrip(lstrip(s))

\* str.split(): the maximal runs of non-whitespace characters, in order.
RECURSIVE split_from(_, _)
split_from(s, cur) ==
    IF s = <<>>
    THEN IF cur = <<>> THEN <<>> ELSE <<cur>>
    ELSE IF Head(s) \in Whitespace
         THEN (IF cur = <<>> THEN <<>> ELSE <<cur>>) \o split_from(Tail(s), <<>>)
         ELSE split_from(Tail(s), Append(cur, Head(s)))

split(s) == split_from(s, <<>>)

\* ' '.join(words)
RECURSIVE join(_)
join(words) ==
    IF words = <<>> THEN <<>>
    ELSE IF Len(words) = 1 THEN words[1]
    ELSE words[1] \o <<" ">> \o join(Tail(words))

\* ------------------------------------------------------------- filesystem
\* A path is the sequence of its components: <<"home", "a.txt">> is
\* /home/a.txt.  The directory tree is fixed; file contents change by edits.
ROOT == <<"home">>

DirPaths == {ROOT, <<"home", "tmp">>, <<"home", "docs">>}

FilePaths ==
    { <<"home", "a.txt">>, <<"home", "b.pdf">>, <<"home", ".h.txt">>,
      <<"home", "c.bin">>, <<"home", "e.txt">>, <<"home", "tmp", "f.txt">>,
      <<"home", "docs", "g.md">> }

AllPaths == DirPaths \cup FilePaths

\* The files users modify.
EditablePaths ==
    { <<"home", "a.txt">>, <<"home", "e.txt">>, <<"home", "docs", "g.md">> }

\* A second tree: the directory /mnt holds one entry, the symbolic link
\* /mnt/up to /mnt itself, so /mnt/up/up/... are paths to /mnt as well.
MNT == <<"mnt">>

\* Whether p is /mnt followed by any number of "up" components.
IsLinkChain(p) == /\ Len(p) >= 1
                  /\ p[1] = "mnt"
                  /\ \A i \in 2..Len(p) : p[i] = "up"

\* Whether the system resolves p: it follows at most MaxSymlinks symbolic
\* links in one path and fails with ELOOP beyond that.
Resolves(p) == IsLinkChain(p) /\ Len(p) - 1 <= MaxSymlinks

\* Path.resolve(): the filesystem object a path leads to.
resolve(p) == IF IsLinkChain(p) THEN MNT ELSE p

\* Path.iterdir(): the directory listing, in the order the filesystem gives.
iterdir(d) ==
    IF d = ROOT
    THEN << <<"home", "a.txt">>, <<"home", ".h.txt">>, <<"home", "docs">>,
            <<"home", "b.pdf">>, <<"home", "tmp">>, <<"home", "c.bin">>,
            <<"home", "e.txt">> >>
    ELSE IF d = <<"home", "tmp">> THEN << <<"home", "tmp", "f.txt">> >>
    ELSE IF d = <<"home", "docs">> THEN << <<"home", "docs", "g.md">> >>
    ELSE IF Resolves(d) THEN << Append(d, "up") >>
    ELSE <<>>

\* Path.name of a path
name(p) == p[Len(p)]

\* child.name.startswith('.')
is_hidden(n) == n \in {".h.txt", ".git"}

\* Path.suffix.lower()
suffix(p) ==
    CASE name(p) \in {"a.txt", ".h.txt", "e.txt", "f.txt"} -> ".txt"
      [] name(p) = "b.pdf" -> ".pdf"
      [] name(p) = "g.md" -> ".md"
      [] name(p) = "c.bin" -> ".bin"
      [] OTHER -> ""

\* (st_dev, st_ino) of a path: those of the object it leads to.
device_inode(p) == <<"dev0", resolve(p)>>

\* The bytes of file p at revision 0.
BaseBytes(p) ==
    CASE p = <<"home", "a.txt">> -> <<"a", " ", "b", " ", "c">>
      [] p = <<"home", "b.pdf">> -> <<PdfBinary, "a", " ", "b">>
      [] p = <<"home", ".h.txt">> -> <<"a">>
      [] p = <<"home", "c.bin">> -> <<"a">>
      [] p = <<"home", "e.txt">> -> <<>>
      [] p = <<"home", "tmp", "f.txt">> -> <<"b">>
      [] p = <<"home", "docs", "g.md">> -> <<"c", " ", "A">>
      [] OTHER -> <<>>

\* The bytes of file p after v appending edits: the first appends " \n", the
\* later ones a word.
RECURSIVE AppendedBytes(_, _)
AppendedBytes(p, v) ==
    IF v = 0 THEN BaseBytes(p)
    ELSE IF v = 1 THEN AppendedBytes(p, 0) \o <<" ", "\n">>
    ELSE AppendedBytes(p, v - 1) \o <<"b">>

\* A rewrite in place: the first space (else the first byte) becomes "x", so
\* the size stays and the number of words may change.
Rewritten(raw) ==
    IF raw = <<>> THEN raw
    ELSE LET k == IF \E i \in DOMAIN raw : raw[i] = " "
                  THEN CHOOSE i \in DOMAIN raw :
                         raw[i] = " " /\ \A j \in 1..(i - 1) : raw[j] # " "
                  ELSE 1
         IN  [i \in DOMAIN raw |-> IF i = k THEN "x" ELSE raw[i]]

\* The bytes of file p after v appending edits, rewritten in place or not.
FileBytes(p, v, alt) ==
    IF alt = 1 THEN Rewritten(AppendedBytes(p, v)) ELSE AppendedBytes(p, v)

\* Path.exists()
exists(p) == p \in AllPaths \/ Resolves(p)

\* Path.is_file()
is_file(p) == p \in FilePaths

\* Path.is_dir()
is_dir(p) == p \in DirPaths \/ Resolves(p)

\* ------------------------------------------------------------ identifiers
\* hashlib.sha256(b).hexdigest(): injective on the byte strings of the model.
sha256(b) == <<"sha256", b>>

\* str.encode(): the UTF-8 bytes of a decoded text (one symbol per character).
encode(text) == text

\* file_id: sha1 of "path|mtime|size".
file_id(path, mtime, size) == <<"sha1", path, mtime, size>>

\* chunk_id: uuid5 of "file_id_idx".
chunk_id(fid, idx) == <<"uuid5", fid, idx>>

\* generate_file_sha256: the digest of the raw bytes of the file.
generate_file_sha256(raw) == sha256(raw)

\* get_file_stats: size in bytes and modification time (the edit count).
get_file_stats(raw, v) == [size |-> Len(raw), mtime |-> v]

\* -------------------------------------------------------------- extraction
\* open(path, 'r', encoding='utf-8', errors='ignore').read(): invalid bytes
\* are dropped and "\r\n" and "\r" are read as "\n" (universal newlines).
RECURSIVE _extract_txt(_)
_extract_txt(raw) ==
    IF raw = <<>> THEN <<>>
    ELSE IF Head(raw) = BadByte THEN _extract_txt(Tail(raw))
    ELSE IF Head(raw) = "\r"
         THEN IF Len(raw) >= 2 /\ raw[2] = "\n"
              THEN <<"\n">> \o _extract_txt(Tail(Tail(raw)))
              ELSE <<"\n">> \o _extract_txt(Tail(raw))
    ELSE <<Head(raw)>> \o _extract_txt(Tail(raw))

_extract_md(raw) == _extract_txt(raw)

\* The page text a PDF library returns: the characters of the pages, without
\* the binary structure of the file.
RECURSIVE page_text(_)
page_text(raw) ==
    IF raw = <<>> THEN <<>>
    ELSE IF Head(raw) \in {PdfBinary, BadByte} THEN page_text(Tail(raw))
    ELSE <<Head(raw)>> \o page_text(Tail(raw))

\* _extract_pdf: the page text, or None when no page has text.
_extract_pdf(raw) ==
    IF strip(page_text(raw)) # <<>> THEN page_text(raw) ELSE None

\* _extract_text: the extractor chosen by suffix (the suffixes of the modelled
\* tree: .txt, .md, .pdf; any other allowed suffix is read as plain text).
_extract_text(p, raw) ==
    CASE suffix(p) = ".txt" -> _extract_txt(raw)
      [] suffix(p) = ".md" -> _extract_md(raw)
      [] suffix(p) = ".pdf" -> _extract_pdf(raw)
      [] OTHER -> _extract_txt(raw)

\* ----------------------------------------------------------------- config
\* config index.allow_exts as the CLI passes it to run_complete_index.
allow_exts == {".txt", ".md", ".markdown", ".pdf", ".docx", ".html", ".htm", ".rtf"}

\* config index.exclude_patterns: "**/<name>/**" matches every path that has
\* <name> as a component other than the last; "**/.*/**" matches every path
\* with a component starting with '.' other than the last.
ExcludedDirNames == {"node_modules", "__pycache__", "venv", "Library", "System",
                     "Applications", "usr", "var", "tmp"}

\* _should_exclude: fnmatch(path, pattern) for some exclude pattern.
_should_exclude(p) ==
    \E i \in 1..(Len(p) - 1) : p[i] \in ExcludedDirNames \/ is_hidden(p[i])

\* ---------------------------------------------------------------- chunker
Chunk(path, fid, text, ts, te, mtime, idx) ==
    [path |-> path, file_id |-> fid, chunk_id |-> chunk_id(fid, idx),
     text |-> text, token_start |-> ts, token_end |-> te, mtime |-> mtime,
     sha256 |-> sha256(encode(text)), idx |-> idx]

\* The while loop of _chunk_text from position i with chunk index idx.
RECURSIVE chunk_loop(_, _, _, _, _, _, _)
chunk_loop(words, i, idx, path, fid, mtime, fuel) ==
    IF ~(i < Len(words)) \/ fuel = 0 THEN <<>>
    ELSE LET chunk_words == SubSeq(words, i + 1, Min(i + MaxTokens, Len(words)))
             chunk_text == join(chunk_words)
         IN  IF strip(chunk_text) = <<>> THEN <<>>
             ELSE <<Chunk(path, fid, chunk_text, i, i + Len(chunk_words), mtime, idx)>>
                  \o chunk_loop(words, i + MaxTokens - Overlap, idx + 1,
                                path, fid, mtime, fuel - 1)

\* _chunk_text: overlapping windows of whitespace-delimited tokens.
_chunk_text(text, path, fid, mtime) ==
    chunk_loop(split(text), 0, 0, path, fid, mtime, Len(text) + 1)

\* ---------------------------------------------------------------- catalog
\* Catalog.upsert_file: INSERT OR REPLACE INTO files, keyed by file_id.
upsert_file(files_tbl, path, size, mtime, sha) ==
    LET fid == file_id(path, mtime, size)
    IN  {r \in files_tbl : r.file_id # fid}
        \cup {[file_id |-> fid, path |-> path, size |-> size,
               mtime |-> mtime, sha256 |-> sha]}

\* What a faulty insert_chunks would do: keep the previous rows of the file.
insert_chunks_no_delete(chunks_tbl, fid, cs) ==
    chunks_tbl
    \cup {[chunk_id |-> cs[i].chunk_id, file_id |-> fid, idx |-> cs[i].idx,
           token_start |-> cs[i].token_start, token_end |-> cs[i].token_end]
          : i \in DOMAIN cs}

\* Catalog.insert_chunks: DELETE FROM chunks WHERE file_id = ?, then INSERT.
insert_chunks(chunks_tbl, fid, cs) ==
    {r \in chunks_tbl : r.file_id # fid}
    \cup {[chunk_id |-> cs[i].chunk_id, file_id |-> fid, idx |-> cs[i].idx,
           token_start |-> cs[i].token_start, token_end |-> cs[i].token_end]
          : i \in DOMAIN cs}

\* Catalog.fts_insert: INSERT OR REPLACE INTO chunks_fts; the table holds one
\* row per chunk_id (the schema is not part of the sources; this follows the
\* design document: "upserts FTS row").
fts_insert(fts_tbl, cid, text, path) ==
    LET Other(r) == r.chunk_id # cid
    IN  Append(SelectSeq(fts_tbl, Other),
               [chunk_id |-> cid, text |-> text, path |-> path])

\* _get_existing_sha256: SELECT sha256 FROM files WHERE file_id = ?
_get_existing_sha256(files_tbl, fid) ==
    IF \E r \in files_tbl : r.file_id = fid
    THEN (CHOOSE r \in files_tbl : r.file_id = fid).sha256
    ELSE None

\* -------------------------------------------------------------- vector store
\* QdrantStore.upsert_vectors: one point per id, the later one wins.
upsert_vectors(store, points) ==
    {v \in store : ~(\E q \in points : q.id = v.id)} \cup points

\* ================================================================== state
VARIABLES
    version,        \* file path -> number of appending edits (its mtime)
    variant,        \* file path -> 1 when rewritten in place since, else 0
    files,          \* catalog table files
    chunks,         \* catalog table chunks
    chunks_fts,     \* catalog full-text table chunks_fts (rows in insertion order)
    vectors,        \* points of the vector store collection
    frontier_file,  \* store/frontier.json: <<>> when missing, else <<state>>
    frontier,       \* the FrontierState a running slice works on
    current_level,  \* the items the running slice has still to process
    stats,          \* BFSIndexer.stats of the indexer of the current run
    total_stats,    \* total_stats of run_complete_index
    pc,             \* position in run_complete_index
    roots,          \* roots argument of the current run
    max_items,      \* max_items_per_slice of the current run
    runs,           \* number of runs started
    edits,          \* number of edits made
    dirty,          \* files edited since the current run started
    run_dirty,      \* files edited between the previous run and the current one
    prev_roots,     \* roots of the previous run (<<>> when there was none)
    embed_failed,   \* file ids whose last ingest did not reach the vector store
    ingested,       \* file paths ingested (persisted) by the current run
    last_insert,    \* file id -> chunk ids of its most recent insert_chunks call
    embedder_up,    \* whether embedder and vector store worked all through the run
    in_file,        \* the _process_file call in progress: what it will have done, and
                    \* the FTS rows it has not inserted yet; <<>> when there is none
    txn             \* the open transaction of the catalog connection: the chunks
                    \* table with its uncommitted writes; <<>> when none is open

index_vars ==
    <<version, variant, files, chunks, chunks_fts, vectors, frontier_file,
      frontier, current_level, stats, total_stats, pc, roots, max_items,
      runs, edits, dirty, run_dirty, prev_roots, embed_failed, ingested,
      last_insert, embedder_up, in_file, txn>>

VARIABLES
    proc,           \* the search process: "none", "ready" or "failed" (constructor raised)
    hash_seed,      \* the string hash seed of the search process
    cache,          \* SearchAPI._cache: entries in insertion order
    cache_max_size, \* SearchAPI._cache_max_size: the configured cache_size
    now,            \* time.time(), in seconds
    call,           \* the last retrieval call made: its name and arguments
    response,       \* what the last retrieval call returned
    held            \* a response dict a caller of run kept: its value when it was
                    \* returned and now, its cache key, and whether the cache
                    \* still refers to the same dict; <<>> when none is kept

search_vars == <<proc, hash_seed, cache, cache_max_size, now, call, response, held>>

vars == <<index_vars, search_vars>>

\* IndexStats()
IndexStats ==
    [files_processed |-> 0, chunks_created |-> 0, files_skipped |-> 0, errors |-> 0]

\* FrontierState(queue=[], seen={})
FrontierState ==
    [queue |-> <<>>, seen |-> <<>>, processed_files |-> 0, processed_dirs |-> 0,
     errors |-> <<>>]

\* _load_frontier: the saved state, or an empty one when there is no file.
_load_frontier(ff) == IF ff = <<>> THEN FrontierState ELSE ff[1]

\* The roots added to an empty queue: those that exist, in order.
RECURSIVE seed_roots(_, _)
seed_roots(queue, rs) ==
    IF rs = <<>> THEN queue
    ELSE seed_roots(IF exists(Head(rs)) THEN Append(queue, Head(rs)) ELSE queue,
                    Tail(rs))

\* The children _process_directory appends: not hidden, not excluded.
RECURSIVE enqueue_children(_, _)
enqueue_children(queue, children) ==
    IF children = <<>> THEN queue
    ELSE LET child == Head(children)
         IN  enqueue_children(
                 IF is_hidden(name(child)) \/ _should_exclude(child)
                 THEN queue ELSE Append(queue, child),
                 Tail(children))

\* What a faulty _process_directory would do: miss the first child.
_process_directory_skip_first(dir_path, queue) ==
    IF _should_exclude(dir_path) \/ iterdir(dir_path) = <<>> THEN queue
    ELSE enqueue_children(queue, Tail(iterdir(dir_path)))

\* What a faulty _process_directory would do: put the children at the front
\* of the queue.
_process_directory_in_front(dir_path, queue) ==
    IF _should_exclude(dir_path) THEN queue
    ELSE enqueue_children(<<>>, iterdir(dir_path)) \o queue

\* _process_directory: the queue after the directory was processed.
_process_directory(dir_path, queue) ==
    IF _should_exclude(dir_path) THEN queue
    ELSE enqueue_children(queue, iterdir(dir_path))

\* The change check of _process_file: a stored digest that equals the digest
\* of the file's bytes.
is_unchanged(existing_sha256, raw) ==
    existing_sha256 # None /\ generate_file_sha256(raw) = existing_sha256

\* The loop of _process_file that inserts every chunk into FTS.
RECURSIVE fts_insert_chunks(_, _)
fts_insert_chunks(fts_tbl, cs) ==
    IF cs = <<>> THEN fts_tbl
    ELSE fts_insert_chunks(
             fts_insert(fts_tbl, Head(cs).chunk_id, Head(cs).text, Head(cs).path),
             Tail(cs))

\* The points _embed_and_upsert sends for the chunks of a file.
embed_points(cs) ==
    {[id |-> cs[i].chunk_id,
      payload |-> [path |-> cs[i].path, file_id |-> cs[i].file_id,
                   chunk_id |-> cs[i].chunk_id, idx |-> cs[i].idx]]
     : i \in DOMAIN cs}

\* _embed_and_upsert: the store after the call; when the embedder or the
\* store fails the error is logged and the store is unchanged.
_embed_and_upsert(store, cs, embed_ok) ==
    IF embed_ok THEN upsert_vectors(store, embed_points(cs)) ELSE store

\* _process_file: the tables after the call, with what it adds to the stats.
_process_file(p, v, alt, files_tbl, chunks_tbl, fts_tbl, store, embed_ok) ==
    LET raw == FileBytes(p, v, alt)
        same == [files |-> files_tbl, chunks |-> chunks_tbl, fts |-> fts_tbl,
                 vectors |-> store, skipped |-> 1, created |-> 0,
                 persisted |-> FALSE, fid |-> None, chunk_ids |-> {}]
    IN  IF suffix(p) \notin allow_exts THEN same
        ELSE IF _should_exclude(p) THEN same
        ELSE LET st == get_file_stats(raw, v)
                 fid == file_id(p, st.mtime, st.size)
                 existing_sha256 == _get_existing_sha256(files_tbl, fid)
             IN  IF is_unchanged(existing_sha256, raw) THEN same
                 ELSE LET text == _extract_text(p, raw)
                      IN  IF text = None \/ text = <<>> THEN same
                          ELSE LET new_sha256 == sha256(encode(text))
                                   cs == _chunk_text(text, p, fid, st.mtime)
                               IN  [files |-> upsert_file(files_tbl, p, st.size,
                                                          st.mtime, new_sha256),
                                    chunks |-> insert_chunks(chunks_tbl, fid, cs),
                                    fts |-> fts_insert_chunks(fts_tbl, cs),
                                    vectors |-> _embed_and_upsert(store, cs, embed_ok),
                                    skipped |-> 0, created |-> Len(cs),
                                    persisted |-> TRUE, fid |-> fid,
                                    chunk_ids |-> {cs[i].chunk_id : i \in DOMAIN cs}]

\* ---------------------------------------------------------------- indexer
\* The roots arguments explored.
RootChoices == { <<ROOT>>, << <<"home", "docs">> >> }

\* The max_items_per_slice arguments explored.
SliceSizes == {2, BigSlice}

IndexInit ==
    /\ version = [p \in FilePaths |-> 0]
    /\ variant = [p \in FilePaths |-> 0]
    /\ files = {}
    /\ chunks = {}
    /\ chunks_fts = <<>>
    /\ vectors = {}
    /\ frontier_file = <<>>
    /\ frontier = FrontierState
    /\ current_level = <<>>
    /\ stats = IndexStats
    /\ total_stats = IndexStats
    /\ pc = "idle"
    /\ roots = <<>>
    /\ max_items = 0
    /\ runs = 0
    /\ edits = 0
    /\ dirty = {}
    /\ run_dirty = {}
    /\ prev_roots = <<>>
    /\ embed_failed = {}
    /\ ingested = {}
    /\ last_insert = <<>>
    /\ embedder_up = TRUE
    /\ in_file = <<>>
    /\ txn = <<>>

\* A user appends to a file while no index run is in progress: its size and
\* its mtime change.
EditFile(p) ==
    /\ pc \in {"idle", "done"}
    /\ edits < MaxEdits
    /\ version' = [version EXCEPT ![p] = @ + 1]
    /\ variant' = [variant EXCEPT ![p] = 0]
    /\ edits' = edits + 1
    /\ dirty' = dirty \cup {p}
    /\ UNCHANGED <<files, chunks, chunks_fts, vectors, frontier_file, frontier,
                   current_level, stats, total_stats, pc, roots, max_items, runs,
                   run_dirty, prev_roots, embed_failed, ingested, last_insert,
                   embedder_up>>
    /\ UNCHANGED <<in_file, txn>>
    /\ UNCHANGED search_vars

\* A user rewrites a file in place within the second of its mtime: its bytes
\* change, its size and its mtime (whole seconds) do not.
RewriteFile(p) ==
    /\ pc \in {"idle", "done"}
    /\ edits < MaxEdits
    /\ variant[p] = 0
    /\ FileBytes(p, version[p], 0) # <<>>
    /\ variant' = [variant EXCEPT ![p] = 1]
    /\ edits' = edits + 1
    /\ dirty' = dirty \cup {p}
    /\ UNCHANGED <<version, files, chunks, chunks_fts, vectors, frontier_file,
                   frontier, current_level, stats, total_stats, pc, roots,
                   max_items, runs, run_dirty, prev_roots, embed_failed, ingested,
                   last_insert, embedder_up>>
    /\ UNCHANGED <<in_file, txn>>
    /\ UNCHANGED search_vars

\* run_complete_index up to its loop: a new BFSIndexer with fresh stats, the
\* frontier file removed.
StartIndex(rs, mi) ==
    /\ pc \in {"idle", "done"}
    /\ runs < MaxRuns
    /\ runs' = runs + 1
    /\ roots' = rs
    /\ prev_roots' = roots
    /\ max_items' = mi
    /\ stats' = IndexStats
    /\ total_stats' = IndexStats
    /\ frontier_file' = <<>>
    /\ frontier' = FrontierState
    /\ current_level' = <<>>
    /\ run_dirty' = dirty
    /\ dirty' = {}
    /\ ingested' = {}
    /\ embedder_up' = TRUE
    /\ pc' = "slice"
    /\ UNCHANGED <<version, variant, files, chunks, chunks_fts, vectors, edits,
                   embed_failed, last_insert>>
    /\ UNCHANGED <<in_file, txn>>
    /\ UNCHANGED search_vars

\* self.max_items: the configured index.max_items, 1000 when absent.
self_max_items == 1000

\* max_items or self.max_items
slice_size(mi) == IF mi = 0 THEN self_max_items ELSE mi

\* run_bfs_slice up to its processing loop: load the frontier, seed it with
\* the roots when its queue is empty, take up to max_items items off the queue.
BeginSlice ==
    /\ pc = "slice"
    /\ LET loaded == _load_frontier(frontier_file)
           queue == IF loaded.queue = <<>> THEN seed_roots(<<>>, roots)
                    ELSE loaded.queue
           n == Max(0, Min(slice_size(max_items), Len(queue)))
       IN  /\ current_level' = SubSeq(queue, 1, n)
           /\ frontier' = [loaded EXCEPT !.queue = SubSeq(queue, n + 1, Len(queue))]
    /\ pc' = "items"
    /\ UNCHANGED <<version, variant, files, chunks, chunks_fts, vectors,
                   frontier_file, stats, total_stats, roots, max_items, runs,
                   edits, dirty, run_dirty, prev_roots, embed_failed, ingested,
                   last_insert, embedder_up>>
    /\ UNCHANGED <<in_file, txn>>
    /\ UNCHANGED search_vars

\* One iteration of the processing loop of run_bfs_slice: _process_item on
\* the next item of the slice.  embed_ok: whether the embedder and the vector
\* store work for this item.
ProcessItem(embed_ok) ==
    /\ pc = "items"
    /\ current_level # <<>>
    /\ LET item == Head(current_level)
           di == device_inode(item)
           marked == [frontier EXCEPT !.seen =
                        [q \in (DOMAIN frontier.seen) \cup {item} |->
                            IF q = item THEN di ELSE frontier.seen[q]]]
       IN  /\ current_level' = Tail(current_level)
           /\ IF ~exists(item)
              THEN UNCHANGED <<files, chunks, chunks_fts, vectors, frontier, stats,
                               embed_failed, ingested, last_insert, embedder_up>>
              ELSE IF item \in DOMAIN frontier.seen /\ frontier.seen[item] = di
              THEN UNCHANGED <<files, chunks, chunks_fts, vectors, frontier, stats,
                               embed_failed, ingested, last_insert, embedder_up>>
              ELSE IF is_file(item)
              THEN \E r \in {_process_file(item, version[item], variant[item], files,
                                            chunks, chunks_fts, vectors, embed_ok)} :
                       /\ files' = r.files
                       /\ chunks' = r.chunks
                       /\ chunks_fts' = r.fts
                       /\ vectors' = r.vectors
                       /\ stats' = [stats EXCEPT
                                      !.files_skipped = @ + r.skipped,
                                      !.chunks_created = @ + r.created,
                                      !.files_processed = @ + 1]
                       /\ frontier' = [marked EXCEPT !.processed_files = @ + 1]
                       /\ embed_failed' =
                             IF ~r.persisted THEN embed_failed
                             ELSE IF embed_ok THEN embed_failed \ {r.fid}
                             ELSE embed_failed \cup {r.fid}
                       /\ embedder_up' = (embedder_up /\ (embed_ok \/ ~r.persisted))
                       /\ ingested' = IF r.persisted THEN ingested \cup {item}
                                      ELSE ingested
                       /\ last_insert' =
                             IF ~r.persisted THEN last_insert
                             ELSE [f \in (DOMAIN last_insert) \cup {r.fid} |->
                                     IF f = r.fid THEN r.chunk_ids
                                     ELSE last_insert[f]]
              ELSE /\ frontier' = [marked EXCEPT
                                     !.queue = _process_directory(item, @),
                                     !.processed_dirs = @ + 1]
                   /\ UNCHANGED <<files, chunks, chunks_fts, vectors, stats,
                                  embed_failed, ingested, last_insert, embedder_up>>
    /\ UNCHANGED <<version, variant, frontier_file, total_stats, pc, roots,
                   max_items, runs, edits, dirty, run_dirty, prev_roots>>
    /\ UNCHANGED <<in_file, txn>>
    /\ UNCHANGED search_vars

\* The end of run_bfs_slice (the frontier is saved) and the rest of the loop
\* body of run_complete_index: the stats of the indexer are added to
\* total_stats, and the run ends when the saved queue is empty.
EndSlice ==
    /\ pc = "items"
    /\ current_level = <<>>
    /\ frontier_file' = <<frontier>>
    /\ total_stats' =
          [files_processed |-> total_stats.files_processed + stats.files_processed,
           chunks_created |-> total_stats.chunks_created + stats.chunks_created,
           files_skipped |-> total_stats.files_skipped + stats.files_skipped,
           errors |-> total_stats.errors + stats.errors]
    /\ pc' = IF frontier.queue = <<>> THEN "done" ELSE "slice"
    /\ UNCHANGED <<version, variant, files, chunks, chunks_fts, vectors,
                   frontier, current_level, stats, roots, max_items, runs, edits,
                   dirty, run_dirty, prev_roots, embed_failed, ingested,
                   last_insert, embedder_up>>
    /\ UNCHANGED <<in_file, txn>>
    /\ UNCHANGED search_vars

\* The module-level run_bfs_slice(roots, max_items=...) up to the slice: a new
\* BFSIndexer with fresh stats; the frontier file is left as it is.
SliceCall(rs, mi) ==
    /\ pc \in {"idle", "done"}
    /\ runs < MaxSlices
    /\ runs' = runs + 1
    /\ roots' = rs
    /\ prev_roots' = roots
    /\ max_items' = mi
    /\ stats' = IndexStats
    /\ frontier' = FrontierState
    /\ current_level' = <<>>
    /\ run_dirty' = dirty
    /\ dirty' = {}
    /\ ingested' = {}
    /\ embedder_up' = TRUE
    /\ pc' = "slice"
    /\ UNCHANGED <<version, variant, files, chunks, chunks_fts, vectors, edits,
                   frontier_file, total_stats, embed_failed, last_insert>>
    /\ UNCHANGED <<in_file, txn>>
    /\ UNCHANGED search_vars

\* The end of BFSIndexer.run_bfs_slice called on its own: the frontier is
\* saved and the call returns.
SaveSlice ==
    /\ pc = "items"
    /\ current_level = <<>>
    /\ frontier_file' = <<frontier>>
    /\ pc' = "done"
    /\ UNCHANGED <<version, variant, files, chunks, chunks_fts, vectors,
                   frontier, current_level, stats, total_stats, roots, max_items,
                   runs, edits, dirty, run_dirty, prev_roots, embed_failed,
                   ingested, last_insert, embedder_up>>
    /\ UNCHANGED <<in_file, txn>>
    /\ UNCHANGED search_vars

\* ---- _process_file commit by commit, as another connection to the catalog
\* ---- sees it

\* Whether the next item of the slice is a file _process_file ingests.
IngestsNext(embed_ok) ==
    /\ pc = "items"
    /\ current_level # <<>>
    /\ exists(Head(current_level))
    /\ ~(/\ Head(current_level) \in DOMAIN frontier.seen
         /\ frontier.seen[Head(current_level)] = device_inode(Head(current_level)))
    /\ is_file(Head(current_level))
    /\ _process_file(Head(current_level), version[Head(current_level)],
                     variant[Head(current_level)], files, chunks, chunks_fts,
                     vectors, embed_ok).persisted

\* The rows the FTS loop of _process_file inserts for a file, in order: the
\* last rows of the table it leaves.
fts_rows(r) ==
    SubSeq(r.fts, Len(r.fts) - Cardinality(r.chunk_ids) + 1, Len(r.fts))

\* The loop body of run_bfs_slice when _process_item raises: the file is one
\* _process_file would ingest and catalog.upsert_file raises (the catalog
\* re-raises its storage error). Nothing was written; the except branch of the
\* slice appends "<path>: <error>" to the errors of the frontier and counts
\* one error; the item is not marked as seen.
ProcessItemRaises ==
    /\ IngestsNext(TRUE)
    /\ current_level' = Tail(current_level)
    /\ frontier' = [frontier EXCEPT
                      !.errors = Append(@, <<Head(current_level), "error">>)]
    /\ stats' = [stats EXCEPT !.errors = @ + 1]
    /\ UNCHANGED <<version, variant, files, chunks, chunks_fts, vectors,
                   frontier_file, total_stats, pc, roots, max_items, runs, edits,
                   dirty, run_dirty, prev_roots, embed_failed, ingested,
                   last_insert, embedder_up, in_file, txn>>
    /\ UNCHANGED search_vars

\* _process_item on a file it ingests while the embedder or the vector store
\* fails: _embed_and_upsert logs the error and returns.
EmbedFails ==
    /\ IngestsNext(FALSE)
    /\ ProcessItem(FALSE)

\* _process_item on an item that is not ingested: a directory, a skipped
\* file, a path already seen.
ProcessOther ==
    /\ ~IngestsNext(TRUE)
    /\ ProcessItem(TRUE)

\* _process_file up to the commit of upsert_file.
UpsertFile(embed_ok) ==
    /\ IngestsNext(embed_ok)
    /\ \E r \in {_process_file(Head(current_level), version[Head(current_level)],
                               variant[Head(current_level)], files,
                               IF txn = <<>> THEN chunks ELSE txn.chunks,
                               chunks_fts, vectors, embed_ok)} :
          /\ in_file' = [result |-> r, rows |-> fts_rows(r)]
          /\ files' = r.files
    /\ chunks' = IF txn = <<>> THEN chunks ELSE txn.chunks
    /\ txn' = <<>>
    /\ pc' = "file.chunks"
    /\ UNCHANGED <<version, variant, chunks_fts, vectors, frontier_file,
                   frontier, current_level, stats, total_stats, roots, max_items,
                   runs, edits, dirty, run_dirty, prev_roots, embed_failed,
                   ingested, last_insert, embedder_up>>
    /\ UNCHANGED search_vars

\* catalog.insert_chunks and its commit.
InsertChunks ==
    /\ pc = "file.chunks"
    /\ chunks' = in_file.result.chunks
    /\ pc' = "file.embed"
    /\ UNCHANGED <<version, variant, files, chunks_fts, vectors, frontier_file,
                   frontier, current_level, stats, total_stats, roots, max_items,
                   runs, edits, dirty, run_dirty, prev_roots, embed_failed,
                   ingested, last_insert, embedder_up, in_file, txn>>
    /\ UNCHANGED search_vars

\* catalog.insert_chunks when the INSERT raises after n of the new rows: the
\* DELETE and the n rows stay in the open transaction (the except branch
\* neither commits nor rolls back), and _process_file goes on.
InsertChunksFails(n) ==
    /\ pc = "file.chunks"
    /\ n < Cardinality(in_file.result.chunk_ids)
    /\ txn' = [chunks |-> {r \in in_file.result.chunks :
                              r.file_id = in_file.result.fid => r.idx < n}]
    /\ pc' = "file.embed"
    /\ UNCHANGED <<version, variant, files, chunks, chunks_fts, vectors,
                   frontier_file, frontier, current_level, stats, total_stats,
                   roots, max_items, runs, edits, dirty, run_dirty, prev_roots,
                   embed_failed, ingested, last_insert, embedder_up, in_file>>
    /\ UNCHANGED search_vars

\* _embed_and_upsert
EmbedAndUpsert ==
    /\ pc = "file.embed"
    /\ vectors' = in_file.result.vectors
    /\ pc' = "file.fts"
    /\ UNCHANGED <<version, variant, files, chunks, chunks_fts, frontier_file,
                   frontier, current_level, stats, total_stats, roots, max_items,
                   runs, edits, dirty, run_dirty, prev_roots, embed_failed,
                   ingested, last_insert, embedder_up, in_file, txn>>
    /\ UNCHANGED search_vars

\* One iteration of the FTS loop: catalog.fts_insert and its commit.
FtsInsert ==
    /\ pc = "file.fts"
    /\ in_file.rows # <<>>
    /\ chunks_fts' = fts_insert(chunks_fts, Head(in_file.rows).chunk_id,
                                Head(in_file.rows).text, Head(in_file.rows).path)
    /\ in_file' = [in_file EXCEPT !.rows = Tail(@)]
    /\ chunks' = IF txn = <<>> THEN chunks ELSE txn.chunks
    /\ txn' = <<>>
    /\ UNCHANGED <<version, variant, files, vectors, frontier_file,
                   frontier, current_level, stats, total_stats, pc, roots,
                   max_items, runs, edits, dirty, run_dirty, prev_roots,
                   embed_failed, ingested, last_insert, embedder_up>>
    /\ UNCHANGED search_vars

\* The end of _process_file and of _process_item: the counters, the path
\* marked as seen.
EndFile(embed_ok) ==
    /\ pc = "file.fts"
    /\ in_file.rows = <<>>
    /\ LET item == Head(current_level)
           r == in_file.result
       IN  /\ stats' = [stats EXCEPT !.chunks_created = @ + r.created,
                                     !.files_processed = @ + 1]
           /\ frontier' = [frontier EXCEPT
                             !.seen = [q \in (DOMAIN frontier.seen) \cup {item} |->
                                          IF q = item THEN device_inode(item)
                                          ELSE frontier.seen[q]],
                             !.processed_files = @ + 1]
           /\ embed_failed' = IF embed_ok THEN embed_failed \ {r.fid}
                              ELSE embed_failed \cup {r.fid}
           /\ embedder_up' = (embedder_up /\ embed_ok)
           /\ ingested' = ingested \cup {item}
           /\ last_insert' = [f \in (DOMAIN last_insert) \cup {r.fid} |->
                                IF f = r.fid THEN r.chunk_ids ELSE last_insert[f]]
    /\ current_level' = Tail(current_level)
    /\ in_file' = <<>>
    /\ pc' = "items"
    /\ UNCHANGED <<version, variant, files, chunks, chunks_fts, vectors,
                   frontier_file, total_stats, roots, max_items, runs, edits,
                   dirty, run_dirty, prev_roots, txn>>
    /\ UNCHANGED search_vars

IndexNext ==
    \/ \E p \in EditablePaths : EditFile(p)
    \/ \E p \in EditablePaths : RewriteFile(p)
    \/ \E rs \in RootChoices, mi \in SliceSizes : StartIndex(rs, mi)
    \/ BeginSlice
    \/ \E embed_ok \in BOOLEAN : ProcessItem(embed_ok)
    \/ EndSlice

\* ================================================================ retrieval
\* ----------------------------------------------------------------- scores
\* A score (a Python float) is an exact rational <<n, d>> in lowest terms
\* with d > 0.
RECURSIVE GCD(_, _)
GCD(a, b) == IF b = 0 THEN a ELSE GCD(b, a % b)

Abs(n) == IF n < 0 THEN -n ELSE n

Rat(n, d) ==
    LET g == GCD(Abs(n), Abs(d))
        s == IF d < 0 THEN -1 ELSE 1
    IN  <<(s * n) \div g, (s * d) \div g>>

Zero == Rat(0, 1)

One == Rat(1, 1)

RAdd(x, y) == Rat(x[1] * y[2] + y[1] * x[2], x[2] * y[2])

RSub(x, y) == Rat(x[1] * y[2] - y[1] * x[2], x[2] * y[2])

RMul(x, y) == Rat(x[1] * y[1], x[2] * y[2])

RDiv(x, y) == Rat(x[1] * y[2], x[2] * y[1])

RLess(x, y) == x[1] * y[2] < y[1] * x[2]

RLeq(x, y) == x[1] * y[2] <= y[1] * x[2]

\* min(scores) and max(scores)
RMin(S) == CHOOSE v \in S : \A w \in S : RLeq(v, w)

RMax(S) == CHOOSE v \in S : \A w \in S : RLeq(w, v)

\* ------------------------------------------------------------- config search
top_k == 50

merge_k == 400

\* search.snippet_radius
snippet_radius == 50

bm25_weight == Rat(55, 100)

cosine_weight == Rat(45, 100)

exact_boost == Rat(20, 100)

early_pos_boost == Rat(10, 100)

max_results_per_file == 1

\* config search.cache_size of the modelled deployment
_cache_max_size == 1

\* SearchAPI._cache_ttl, in seconds
_cache_ttl == 3600

\* ------------------------------------------------------------ str and list
\* q in text
contains(text, q) ==
    \E i \in 0..(Len(text) - Len(q)) : SubSeq(text, i + 1, i + Len(q)) = q

\* text.find(q): the first position (from 0) of q in text, or -1.
find(text, q) ==
    IF contains(text, q)
    THEN CHOOSE i \in 0..(Len(text) - Len(q)) :
            /\ SubSeq(text, i + 1, i + Len(q)) = q
            /\ \A j \in 0..(i - 1) : SubSeq(text, j + 1, j + Len(q)) # q
    ELSE -1

\* The index Python uses for slice bound b on a list of length n.
slice_index(b, n) == IF b < 0 THEN Max(n + b, 0) ELSE Min(b, n)

\* s[a:b]
slice(s, a, b) ==
    SubSeq(s, slice_index(a, Len(s)) + 1, slice_index(b, Len(s)))

\* s[:n]
take(s, n) == slice(s, 0, n)

\* A dict with no key.
EmptyDict == [x \in {} |-> Zero]

\* The elements of a set in one fixed order.
RECURSIVE set_list(_)
set_list(S) ==
    IF S = {} THEN <<>>
    ELSE LET x == CHOOSE x \in S : TRUE
         IN  <<x>> \o set_list(S \ {x})

reversed(s) == [i \in DOMAIN s |-> s[Len(s) + 1 - i]]

\* for x in set_of_str: the order follows the hashes of the strings, which
\* change with the hash seed of the process (PYTHONHASHSEED); the order is
\* fixed within a process.  Two seeds, two orders.
iter_set(seed, S) == IF seed = 0 THEN set_list(S) ELSE reversed(set_list(S))

\* ---------------------------------------------------------- catalog reads
\* Whether Catalog.chunk_meta finds a row: a chunk row with its file row.
has_chunk_meta(cid) ==
    \E c \in chunks : c.chunk_id = cid /\ \E f \in files : f.file_id = c.file_id

\* Catalog.chunk_meta: the chunk row joined with its file row, or None.
chunk_meta(cid) ==
    IF has_chunk_meta(cid)
    THEN LET c == CHOOSE c \in chunks : c.chunk_id = cid
             f == CHOOSE f \in files : f.file_id = c.file_id
         IN  [chunk_id |-> c.chunk_id, file_id |-> c.file_id, idx |-> c.idx,
              token_start |-> c.token_start, token_end |-> c.token_end,
              path |-> f.path]
    ELSE None

\* Catalog.get_chunk_text: the text of the first FTS row of the chunk, or None.
get_chunk_text(cid) ==
    IF \E i \in DOMAIN chunks_fts : chunks_fts[i].chunk_id = cid
    THEN chunks_fts[CHOOSE i \in DOMAIN chunks_fts :
                       /\ chunks_fts[i].chunk_id = cid
                       /\ \A j \in 1..(i - 1) : chunks_fts[j].chunk_id # cid].text
    ELSE None

\* ---------------------------------------------------------------- scoring
\* What a faulty _normalize_scores would do: return the raw scores.
_normalize_scores_raw(candidates) == candidates

\* _normalize_scores: min-max normalization; the candidates as they are when
\* there is none or when all scores are equal.
_normalize_scores(candidates) ==
    IF DOMAIN candidates = {} THEN EmptyDict
    ELSE LET scores == {candidates[c] : c \in DOMAIN candidates}
             min_score == RMin(scores)
             max_score == RMax(scores)
         IN  IF max_score = min_score THEN candidates
             ELSE [c \in DOMAIN candidates |->
                      RDiv(RSub(candidates[c], min_score),
                           RSub(max_score, min_score))]

\* _calculate_exact_match
_calculate_exact_match(query, text) ==
    LET query_lower == strip(lower(query))
        text_lower == lower(text)
        query_words == Range(split(query_lower))
        text_words == Range(split(text_lower))
    IN  IF contains(text_lower, query_lower) THEN One
        ELSE IF query_words = {} THEN Zero
        ELSE LET word_ratio == Rat(Cardinality(query_words \cap text_words),
                                   Cardinality(query_words))
             IN  IF RLeq(Rat(7, 10), word_ratio) THEN word_ratio ELSE Zero

\* _calculate_position_bonus
_calculate_position_bonus(query, text) ==
    LET query_lower == strip(lower(query))
        text_lower == lower(text)
        pos == find(text_lower, query_lower)
    IN  IF pos = -1 THEN Zero
        ELSE LET position_ratio == Rat(pos, Len(text_lower))
             IN  IF RLeq(position_ratio, Rat(3, 10))
                 THEN RSub(One, position_ratio) ELSE Zero

\* dict.get(chunk_id, 0.0)
get(d, key) == IF key \in DOMAIN d THEN d[key] ELSE Zero

\* The ScoredChunk merge_and_score builds for a chunk id with metadata and text.
ScoredChunk(cid, query, vec_scores_norm, lex_scores_norm) ==
    LET cosine_score == get(vec_scores_norm, cid)
        bm25_score == get(lex_scores_norm, cid)
        meta == chunk_meta(cid)
        chunk_text == get_chunk_text(cid)
        exact_match == _calculate_exact_match(query, chunk_text)
        position_bonus == _calculate_position_bonus(query, chunk_text)
        base_score == RAdd(RMul(bm25_weight, bm25_score),
                           RMul(cosine_weight, cosine_score))
        final_score == RAdd(base_score,
                            RAdd(RMul(exact_boost, exact_match),
                                 RMul(early_pos_boost, position_bonus)))
    IN  [chunk_id |-> cid, file_id |-> meta.file_id, path |-> meta.path,
         text |-> chunk_text, score |-> final_score,
         score_breakdown |-> [cosine |-> cosine_score, bm25 |-> bm25_score,
                              exact |-> exact_match,
                              position_bonus |-> position_bonus,
                              final |-> final_score],
         chunk_idx |-> meta.idx]

\* list.sort(key=lambda x: x.score, reverse=True): stable, so chunks of equal
\* score keep their order.
RECURSIVE sort_by_score(_)
sort_by_score(s) ==
    IF s = <<>> THEN <<>>
    ELSE LET sorted == sort_by_score(SubSeq(s, 1, Len(s) - 1))
             x == s[Len(s)]
             k == Cardinality({i \in DOMAIN sorted : RLeq(x.score, sorted[i].score)})
         IN  SubSeq(sorted, 1, k) \o <<x>> \o SubSeq(sorted, k + 1, Len(sorted))

\* The loop of merge_and_score over the chunk ids, in the given order: ids
\* without metadata or text are left out.
RECURSIVE score_all(_, _, _, _)
score_all(ids, query, vec_scores_norm, lex_scores_norm) ==
    IF ids = <<>> THEN <<>>
    ELSE LET cid == Head(ids)
             tail == score_all(Tail(ids), query, vec_scores_norm, lex_scores_norm)
         IN  IF ~has_chunk_meta(cid) \/ get_chunk_text(cid) \in {None, <<>>}
             THEN tail
             ELSE <<ScoredChunk(cid, query, vec_scores_norm, lex_scores_norm)>>
                  \o tail

\* merge_and_score, in a process with hash seed `seed`.
merge_and_score(query, vec_candidates, lex_candidates, seed) ==
    LET all_chunk_ids == DOMAIN vec_candidates \cup DOMAIN lex_candidates
    IN  IF all_chunk_ids = {} THEN <<>>
        ELSE take(sort_by_score(score_all(iter_set(seed, all_chunk_ids), query,
                                          _normalize_scores(vec_candidates),
                                          _normalize_scores(lex_candidates))),
                  merge_k)

\* The file ids of the chunks, each once, in order of first appearance (the
\* key order of the file_best dict).
RECURSIVE file_order(_, _)
file_order(scored_chunks, seen_ids) ==
    IF scored_chunks = <<>> THEN <<>>
    ELSE IF Head(scored_chunks).file_id \in seen_ids
         THEN file_order(Tail(scored_chunks), seen_ids)
         ELSE <<Head(scored_chunks).file_id>>
              \o file_order(Tail(scored_chunks),
                            seen_ids \cup {Head(scored_chunks).file_id})

\* The best chunks of each file, file after file.
RECURSIVE best_of_files(_, _, _)
best_of_files(fids, scored_chunks, max_per_file) ==
    IF fids = <<>> THEN <<>>
    ELSE LET OfFile(c) == c.file_id = Head(fids)
         IN  take(sort_by_score(SelectSeq(scored_chunks, OfFile)), max_per_file)
             \o best_of_files(Tail(fids), scored_chunks, max_per_file)

\* What dedupe_by_file would do without the per-file limit.
dedupe_by_file_unlimited(scored_chunks, max_per_file) ==
    sort_by_score(scored_chunks)

\* dedupe_by_file
dedupe_by_file(scored_chunks, max_per_file) ==
    sort_by_score(best_of_files(file_order(scored_chunks, {}), scored_chunks,
                                max_per_file))

\* --------------------------------------------------------------- retriever
\* What the vector store or the FTS engine answers to one search: its hits
\* (chunk id -> score), or a failure (connection lost, timeout, bad query).
NoAnswer == [ok |-> FALSE, hits |-> EmptyDict]

Answer(hits) == [ok |-> TRUE, hits |-> hits]

\* embed_query: the embedding of the text, or None when the embedder is not
\* available or fails.
embed_query(text, embed_ok) == IF embed_ok THEN <<"embedding">> \o text ELSE None

\* QdrantStore.vector_search as vector_candidates calls it: the hits; a lost
\* connection raises, a failed search gives no hit.  vector_candidates turns
\* every exception into the empty dict.
vector_candidates(query_embedding, vec_answer) ==
    IF vec_answer.ok THEN vec_answer.hits ELSE EmptyDict

\* Characters that are neither word characters nor whitespace.
Punctuation == {"?", PdfBinary, BadByte}

\* _clean_query: punctuation to spaces, lower case, whitespace collapsed.
_clean_query(query) ==
    join(split([i \in DOMAIN query |->
                  IF lower_char(query[i]) \in Punctuation THEN " "
                  ELSE lower_char(query[i])]))

\* Catalog.fts_search: the hits of the FTS engine, none when the query fails.
fts_search(query, lex_answer) ==
    IF lex_answer.ok THEN lex_answer.hits ELSE EmptyDict

\* lexical_candidates
lexical_candidates(query, lex_answer) == fts_search(_clean_query(query), lex_answer)

\* k or top_k
or_top_k(k) == IF k = 0 THEN top_k ELSE k

\* HybridRetriever.search, in a process with hash seed `seed`.
search(query, k, embed_ok, vec_answer, lex_answer, seed) ==
    LET query_embedding == embed_query(query, embed_ok)
    IN  IF query_embedding = None THEN <<>>
        ELSE take(dedupe_by_file(
                      merge_and_score(query,
                                      vector_candidates(query_embedding, vec_answer),
                                      lexical_candidates(query, lex_answer),
                                      seed),
                      1),
                  or_top_k(k))

\* ---------------------------------------------------------------- snippets
\* The characters of s at the positions in keep, in order.
Pick(s, keep) ==
    [k \in 1..Cardinality(keep) |->
        s[CHOOSE i \in keep : Cardinality({j \in keep : j <= i}) = k]]

\* s[:n] for n >= 0
prefix(s, n) == SubSeq(s, 1, Min(n, Len(s)))

\* text.rfind(' '): the last position (from 0) of a space, or -1.
rfind_space(s) ==
    IF \E i \in DOMAIN s : s[i] = " "
    THEN (CHOOSE i \in DOMAIN s :
             s[i] = " " /\ \A j \in (i + 1)..Len(s) : s[j] # " ") - 1
    ELSE -1

\* The earliest position (from 0) of any of the words in text_lower, else
\* len(text).
earliest_word(text_lower, query_words) ==
    LET hits == {find(text_lower, query_words[i]) : i \in DOMAIN query_words} \ {-1}
    IN  IF hits = {} THEN Len(text_lower)
        ELSE CHOOSE h \in hits : \A g \in hits : h <= g

\* _find_best_match: the position of the phrase, else of the earliest query
\* word, else -1.
_find_best_match(text, query) ==
    LET text_lower == lower(text)
        query_lower == lower(query)
        pos == find(text_lower, query_lower)
        query_words == split(query_lower)
        earliest_pos == earliest_word(text_lower, query_words)
    IN  IF pos # -1 THEN pos
        ELSE IF query_words = <<>> THEN -1
        ELSE IF earliest_pos < Len(text) THEN earliest_pos ELSE -1

Ellipsis == <<".", ".", ".">>

\* make_snippet(chunk_text, query, radius): the snippet and its positions in
\* the text.
make_snippet(chunk_text, query, radius) ==
    LET match_pos == _find_best_match(chunk_text, query)
        start_pos == Max(0, match_pos - radius)
        end_pos == Min(Len(chunk_text), match_pos + Len(query) + radius)
    IN  IF chunk_text = <<>> \/ query = <<>> \/ match_pos = -1
        THEN [snippet |-> prefix(chunk_text, radius * 2), start_pos |-> 0,
              end_pos |-> Min(radius * 2, Len(chunk_text))]
        ELSE [snippet |-> (IF start_pos > 0 THEN Ellipsis ELSE <<>>)
                             \o SubSeq(chunk_text, start_pos + 1, end_pos)
                             \o (IF end_pos < Len(chunk_text) THEN Ellipsis ELSE <<>>),
              start_pos |-> start_pos, end_pos |-> end_pos]

\* clean_snippet: every run of whitespace becomes one space, then strip().
clean_snippet(snippet) ==
    LET keep == {i \in DOMAIN snippet :
                    \/ snippet[i] \notin Whitespace
                    \/ i = 1
                    \/ snippet[i - 1] \notin Whitespace}
        spaced == [i \in DOMAIN snippet |->
                      IF snippet[i] \in Whitespace THEN " " ELSE snippet[i]]
    IN  strip(Pick(spaced, keep))

\* truncate_snippet(snippet, max_length): cut at max_length, or at the last
\* space when that lies beyond 0.8 * max_length, and "..." appended.
truncate_snippet(snippet, max_length) ==
    LET truncated == SubSeq(snippet, 1, max_length)
        last_space == rfind_space(truncated)
    IN  IF Len(snippet) <= max_length THEN snippet
        ELSE (IF last_space * 10 > max_length * 8
              THEN SubSeq(truncated, 1, last_space) ELSE truncated) \o Ellipsis

\* max_length=200 in _create_search_hit
snippet_max_length == 200

\* The snippet part of _create_search_hit with exact_match set (no
\* highlighting): the snippet of the hit and its context_range.
hit_snippet(chunk_text, query, radius) ==
    LET made == make_snippet(chunk_text, query, radius)
    IN  [snippet |-> truncate_snippet(clean_snippet(made.snippet), snippet_max_length),
         context_range |-> <<made.start_pos, made.end_pos>>]

\* --------------------------------------------------------------------- API
\* The file type _create_search_hit derives from the path.
file_type(path) ==
    CASE suffix(path) \in {".md", ".markdown"} -> "markdown"
      [] suffix(path) = ".pdf" -> "pdf"
      [] suffix(path) \in {".txt", ".text"} -> "text"
      [] suffix(path) \in {".html", ".htm"} -> "html"
      [] suffix(path) \in {".docx", ".doc"} -> "document"
      [] OTHER -> "unknown"

\* _create_search_hit
_create_search_hit(chunk) ==
    [path |-> chunk.path, score |-> chunk.score,
     score_breakdown |-> chunk.score_breakdown, file_type |-> file_type(chunk.path),
     chunk_id |-> chunk.chunk_id, file_id |-> chunk.file_id,
     chunk_idx |-> chunk.chunk_idx]

\* No option given.
NoOpts == [x \in {} |-> 0]

\* _generate_cache_key: md5 of the printed parameters.
_generate_cache_key(query, k, page, per_page, opts) ==
    <<"md5", query, k, page, per_page, opts>>

\* The position of the cache entry with the key, 0 when there is none.
cache_index(c, key) ==
    IF \E i \in DOMAIN c : c[i].key = key
    THEN CHOOSE i \in DOMAIN c : c[i].key = key
    ELSE 0

\* del cache[key] for the entry at position i
cache_delete(c, i) == SubSeq(c, 1, i - 1) \o SubSeq(c, i + 1, Len(c))

\* What _get_cached_result would do without the TTL check.
_get_cached_result_no_ttl(c, key, t) ==
    [index |-> cache_index(c, key), cache |-> c]

\* _get_cached_result: the position of a valid entry (0: none) and the cache
\* afterwards; an entry older than the TTL is deleted.
_get_cached_result(c, key, t) ==
    LET i == cache_index(c, key)
    IN  IF i = 0 THEN [index |-> 0, cache |-> c]
        ELSE IF t - c[i].timestamp > _cache_ttl
             THEN [index |-> 0, cache |-> cache_delete(c, i)]
             ELSE [index |-> i, cache |-> c]

\* _cache_result: the cache afterwards; raised when min() gets no key.
_cache_result(c, key, result, t) ==
    LET entry == [key |-> key, result |-> result, timestamp |-> t]
        full == Len(c) >= cache_max_size
        oldest == CHOOSE i \in DOMAIN c :
                     /\ \A j \in DOMAIN c : c[i].timestamp <= c[j].timestamp
                     /\ \A j \in 1..(i - 1) : c[j].timestamp > c[i].timestamp
        kept == IF full THEN cache_delete(c, oldest) ELSE c
        i == cache_index(kept, key)
    IN  IF full /\ c = <<>> THEN [raised |-> TRUE, cache |-> c]
        ELSE [raised |-> FALSE,
              cache |-> IF i = 0 THEN Append(kept, entry)
                        ELSE [kept EXCEPT ![i] = entry]]

\* a // b
floordiv(a, b) == IF b > 0 THEN a \div b ELSE (-a) \div (-b)

\* The response of run when an exception was caught.
ErrorResponse(query, page, per_page, error, t) ==
    [query |-> query, total_hits |-> 0, page |-> page, per_page |-> per_page,
     total_pages |-> 0, has_next |-> FALSE, has_prev |-> FALSE, items |-> <<>>,
     cache_hit |-> FALSE, error |-> error, timestamp |-> t]

\* run: the search hits of the found chunks, after the per-file limit.
search_hits_of(found, max_per_file) ==
    [i \in DOMAIN (IF max_per_file > 0 THEN dedupe_by_file(found, max_per_file)
                   ELSE found) |->
        _create_search_hit((IF max_per_file > 0
                            THEN dedupe_by_file(found, max_per_file)
                            ELSE found)[i])]

\* What paginate would do if pages were counted from 0.
paginate_from_zero(query, page, per_page, search_hits, t) ==
    [query |-> query, total_hits |-> Len(search_hits), page |-> page,
     per_page |-> per_page,
     total_pages |-> floordiv(Len(search_hits) + per_page - 1, per_page),
     has_next |-> page < floordiv(Len(search_hits) + per_page - 1, per_page),
     has_prev |-> page > 1,
     items |-> slice(search_hits, page * per_page, page * per_page + per_page),
     cache_hit |-> FALSE, timestamp |-> t]

\* run: the page of the hits and the response built around it.
paginate(query, page, per_page, search_hits, t) ==
    LET total_hits == Len(search_hits)
        start_idx == (page - 1) * per_page
        end_idx == start_idx + per_page
        total_pages == floordiv(total_hits + per_page - 1, per_page)
    IN  [query |-> query, total_hits |-> total_hits, page |-> page,
         per_page |-> per_page, total_pages |-> total_pages,
         has_next |-> page < total_pages, has_prev |-> page > 1,
         items |-> slice(search_hits, start_idx, end_idx),
         cache_hit |-> FALSE, timestamp |-> t]

\* run: the result is cached and returned; an exception of _cache_result is
\* caught like any other.
cache_and_return(query, page, per_page, cache_key, result, c, t) ==
    LET stored == _cache_result(c, cache_key, result, t)
    IN  IF stored.raised
        THEN [response |-> ErrorResponse(query, page, per_page, "ValueError", t),
              cache |-> c]
        ELSE [response |-> result, cache |-> stored.cache]

\* SearchAPI.run at time t with cache c, in a process with hash seed `seed`:
\* the response and the cache afterwards.
run(query, k, page, per_page, opts, embed_ok, vec_answer, lex_answer, seed, c, t) ==
    LET max_per_file == IF "max_results_per_file" \in DOMAIN opts
                        THEN opts["max_results_per_file"]
                        ELSE max_results_per_file
        cache_key == _generate_cache_key(query, or_top_k(k), page, per_page, opts)
        cached == _get_cached_result(c, cache_key, t)
    IN  IF cached.index # 0
        THEN [response |-> [c[cached.index].result EXCEPT !.cache_hit = TRUE],
              cache |-> [c EXCEPT ![cached.index].result.cache_hit = TRUE]]
        ELSE IF per_page = 0
        THEN [response |-> ErrorResponse(query, page, per_page,
                                         "ZeroDivisionError", t),
              cache |-> cached.cache]
        ELSE cache_and_return(
                 query, page, per_page, cache_key,
                 paginate(query, page, per_page,
                          search_hits_of(search(query, or_top_k(k), embed_ok,
                                                vec_answer, lex_answer, seed),
                                         max_per_file),
                          t),
                 cached.cache, t)

\* ------------------------------------------------------- the indexed stores
\* The stores and counters after _process_item on a file, r being what
\* _process_file did.
process_file_item(item, t, r) ==
    [files |-> r.files, chunks |-> r.chunks, fts |-> r.fts,
     vectors |-> r.vectors,
     queue |-> t.queue,
     seen |-> t.seen \cup {item},
     processed_files |-> t.processed_files + 1,
     processed_dirs |-> t.processed_dirs,
     stats |-> [t.stats EXCEPT !.files_skipped = @ + r.skipped,
                               !.chunks_created = @ + r.created,
                               !.files_processed = @ + 1],
     ingested |-> IF r.persisted THEN t.ingested \cup {item} ELSE t.ingested,
     last |-> IF r.persisted THEN t.last \cup {<<r.fid, r.chunk_ids>>}
              ELSE t.last]

\* The stores and counters after _process_item on each item, in order.
RECURSIVE process_items(_, _)
process_items(items, t) ==
    IF items = <<>> THEN t
    ELSE process_items(
             Tail(items),
             IF is_file(Head(items))
             THEN process_file_item(Head(items), t,
                                    _process_file(Head(items), 0, 0, t.files,
                                                  t.chunks, t.fts, t.vectors, TRUE))
             ELSE [t EXCEPT !.queue = _process_directory(Head(items), @),
                            !.seen = @ \cup {Head(items)},
                            !.processed_dirs = @ + 1])

\* run_complete_index from the given stores: slice after slice until the
\* queue is empty.
RECURSIVE run_slices(_, _, _, _)
run_slices(t, total, mi, fuel) ==
    LET n == Min(mi, Len(t.queue))
        after == process_items(SubSeq(t.queue, 1, n),
                               [t EXCEPT !.queue = SubSeq(@, n + 1, Len(@))])
        sum == [files_processed |-> total.files_processed + after.stats.files_processed,
                chunks_created |-> total.chunks_created + after.stats.chunks_created,
                files_skipped |-> total.files_skipped + after.stats.files_skipped,
                errors |-> total.errors + after.stats.errors]
    IN  IF after.queue = <<>> \/ fuel = 0 THEN [t |-> after, total |-> sum]
        ELSE run_slices(after, sum, mi, fuel - 1)

\* The stores after the first run_complete_index over /home, every embedding
\* and upsert succeeding.
Indexed ==
    run_slices([files |-> {}, chunks |-> {}, fts |-> <<>>, vectors |-> {},
                queue |-> seed_roots(<<>>, <<ROOT>>), seen |-> {},
                processed_files |-> 0, processed_dirs |-> 0, stats |-> IndexStats,
                ingested |-> {}, last |-> {}],
               IndexStats, BigSlice, Cardinality(AllPaths))

\* The state when that run has returned.
IndexedInit ==
    \E indexed \in {Indexed} :
        /\ version = [p \in FilePaths |-> 0]
        /\ variant = [p \in FilePaths |-> 0]
        /\ files = indexed.t.files
        /\ chunks = indexed.t.chunks
        /\ chunks_fts = indexed.t.fts
        /\ vectors = indexed.t.vectors
        /\ frontier = [queue |-> <<>>,
                       seen |-> [p \in indexed.t.seen |-> device_inode(p)],
                       processed_files |-> indexed.t.processed_files,
                       processed_dirs |-> indexed.t.processed_dirs,
                       errors |-> <<>>]
        /\ frontier_file = <<frontier>>
        /\ current_level = <<>>
        /\ stats = indexed.t.stats
        /\ total_stats = indexed.total
        /\ pc = "done"
        /\ roots = <<ROOT>>
        /\ max_items = BigSlice
        /\ runs = 1
        /\ edits = 0
        /\ dirty = {}
        /\ run_dirty = {}
        /\ prev_roots = <<>>
        /\ embed_failed = {}
        /\ ingested = indexed.t.ingested
        /\ last_insert = [f \in {x[1] : x \in indexed.t.last} |->
                            (CHOOSE x \in indexed.t.last : x[1] = f)[2]]
        /\ embedder_up = TRUE
        /\ in_file = <<>>
        /\ txn = <<>>

\* ------------------------------------------------------- retrieval actions
\* The chunk id of chunk idx of file p as first indexed.
indexed_chunk(p, idx) == chunk_id(file_id(p, 0, Len(BaseBytes(p))), idx)

ChunkA == indexed_chunk(<<"home", "a.txt">>, 0)

ChunkB == indexed_chunk(<<"home", "b.pdf">>, 0)

ChunkC == indexed_chunk(<<"home", "docs", "g.md">>, 0)

\* The hash seeds of the processes explored.
HashSeeds == {0, 1}

\* The queries explored: one that occurs in no chunk, one that is a phrase of
\* the chunks of a.txt and b.pdf.
Queries == { <<"z">>, <<"a", " ", "b">> }

\* The dicts from some of the ids to the scores.
Dicts(ids, scores) == UNION {[S -> scores] : S \in SUBSET ids}

\* The hit lists of the vector store explored (cosine similarities).
VecHits == Dicts({ChunkA, ChunkB}, {Rat(6, 10), Rat(9, 10)})

\* The hit lists of the FTS engine explored (absolute BM25 scores).
LexHits == Dicts({ChunkB, ChunkC}, {Rat(5, 1), Rat(10, 1)})

\* The answers of the vector store explored: some of the two chunks at one
\* similarity, or a failure.
VecAnswers == {Answer(h) : h \in Dicts({ChunkA, ChunkB}, {Rat(9, 10)})}
              \cup {NoAnswer}

\* The answers of the FTS engine explored: some of the two chunks at one
\* score, or a failure.
LexAnswers == {Answer(h) : h \in Dicts({ChunkB, ChunkC}, {Rat(10, 1)})}
              \cup {NoAnswer}

\* The answers explored through the API: a failure, no hit, one hit.
ApiVecAnswers == {NoAnswer, Answer(EmptyDict), Answer([c \in {ChunkA} |-> Rat(9, 10)])}

ApiLexAnswers == {NoAnswer, Answer(EmptyDict), Answer([c \in {ChunkB} |-> Rat(10, 1)])}

\* The record of a call: its name and arguments, with what embedder, vector
\* store and FTS engine did during it.
Call(op, query, k, page, per_page, opts, embed_ok, vec_answer, lex_answer) ==
    [op |-> op, query |-> query, k |-> k, page |-> page, per_page |-> per_page,
     opts |-> opts, embed_ok |-> embed_ok, vec_answer |-> vec_answer,
     lex_answer |-> lex_answer]

NoCall == Call("none", <<>>, 0, 1, 10, NoOpts, TRUE, NoAnswer, NoAnswer)

\* No search process yet.
SearchIdle ==
    /\ proc = "none"
    /\ hash_seed = 0
    /\ cache = <<>>
    /\ cache_max_size = _cache_max_size
    /\ now = 0
    /\ call = NoCall
    /\ response = <<>>
    /\ held = <<>>

\* A search process starts: SearchAPI() builds the retriever, which builds the
\* storage; create_storage raises when the vector store cannot be reached.
StartProcess(seed, connected) ==
    /\ proc' = IF connected THEN "ready" ELSE "failed"
    /\ hash_seed' = seed
    /\ cache' = <<>>
    /\ cache_max_size' = _cache_max_size
    /\ held' = IF held = <<>> THEN held ELSE [held EXCEPT !.cached = FALSE]
    /\ UNCHANGED <<now, call, response>>
    /\ UNCHANGED index_vars

\* merge_and_score(query, vec_candidates, lex_candidates)
Merge(query, vec_candidates, lex_candidates) ==
    /\ proc = "ready"
    /\ call' = Call("merge_and_score", query, 0, 1, 10, NoOpts, TRUE,
                    Answer(vec_candidates), Answer(lex_candidates))
    /\ response' = merge_and_score(query, vec_candidates, lex_candidates, hash_seed)
    /\ UNCHANGED <<proc, hash_seed, cache, cache_max_size, now>>
    /\ UNCHANGED index_vars
    /\ UNCHANGED held

\* retriever.search(query, k); without an embedding no vector search is made.
Search(query, k, embed_ok, vec_answer, lex_answer) ==
    /\ proc = "ready"
    /\ ~embed_ok => vec_answer = NoAnswer
    /\ call' = Call("search", query, k, 1, 10, NoOpts, embed_ok, vec_answer,
                    lex_answer)
    /\ response' = search(query, k, embed_ok, vec_answer, lex_answer, hash_seed)
    /\ UNCHANGED <<proc, hash_seed, cache, cache_max_size, now>>
    /\ UNCHANGED index_vars
    /\ UNCHANGED held

\* api.run(query, k, page, per_page, opts)
\* A dict run returned earlier and the caller kept, after a later call of run
\* with cache key `key` that left the cache c: the cache stores and returns
\* references, so a hit on the entry of the dict writes cache_hit into it;
\* the cache lets go of the dict when its entry is deleted or evicted.
held_after(h, key, hit, c) ==
    IF h = <<>> THEN h
    ELSE IF ~h.cached THEN h
    ELSE IF key = h.key
    THEN IF hit THEN [h EXCEPT !.result.cache_hit = TRUE]
         ELSE [h EXCEPT !.cached = FALSE]
    ELSE IF cache_index(c, h.key) = 0 THEN [h EXCEPT !.cached = FALSE]
    ELSE h

Run(query, k, page, per_page, opts, embed_ok, vec_answer, lex_answer) ==
    /\ proc = "ready"
    /\ ~embed_ok => vec_answer = NoAnswer
    /\ LET r == run(query, k, page, per_page, opts, embed_ok, vec_answer,
                    lex_answer, hash_seed, cache, now)
       IN  /\ response' = r.response
           /\ cache' = r.cache
    /\ call' = Call("run", query, k, page, per_page, opts, embed_ok, vec_answer,
                    lex_answer)
    /\ held' = IF held = <<>> THEN held
               ELSE held_after(held,
                               _generate_cache_key(query, or_top_k(k), page,
                                                   per_page, opts),
                               response'.cache_hit, cache')
    /\ UNCHANGED <<proc, hash_seed, cache_max_size, now>>
    /\ UNCHANGED index_vars

\* run whose caller keeps the dict it returns: the dict the cache stores, or
\* the error response, which is not stored.
RunAndHold(query, k, page, per_page, opts, embed_ok, vec_answer, lex_answer) ==
    /\ proc = "ready"
    /\ held = <<>>
    /\ ~embed_ok => vec_answer = NoAnswer
    /\ \E r \in {run(query, k, page, per_page, opts, embed_ok, vec_answer,
                      lex_answer, hash_seed, cache, now)} :
          /\ response' = r.response
          /\ cache' = r.cache
          /\ held' = [key |-> _generate_cache_key(query, or_top_k(k), page,
                                                  per_page, opts),
                      returned |-> r.response,
                      result |-> r.response,
                      cached |-> "error" \notin DOMAIN r.response]
    /\ call' = Call("run", query, k, page, per_page, opts, embed_ok, vec_answer,
                    lex_answer)
    /\ UNCHANGED <<proc, hash_seed, cache_max_size, now>>
    /\ UNCHANGED index_vars

\* Time passes: more than the TTL of a cache entry.
Tick ==
    /\ now < MaxTicks * (_cache_ttl + 1)
    /\ now' = now + _cache_ttl + 1
    /\ UNCHANGED <<proc, hash_seed, cache, cache_max_size, call, response>>
    /\ UNCHANGED index_vars
    /\ UNCHANGED held

\* What the caller sees when the call raises instead of returning.
Raised(exception) == [raised |-> exception]

\* The module-level run(query, k, page, per_page, opts): get_api() builds the
\* global SearchAPI when there is none, then api.run.  The constructor raises
\* when the vector store cannot be reached, and the instance stays unset.
ModuleRun(query, k, page, per_page, opts, connected, embed_ok, vec_answer, lex_answer) ==
    /\ ~embed_ok => vec_answer = NoAnswer
    /\ call' = Call("module_run", query, k, page, per_page, opts, embed_ok,
                    vec_answer, lex_answer)
    /\ IF proc # "ready" /\ ~connected
       THEN /\ proc' = "failed"
            /\ response' = Raised("RuntimeError")
            /\ cache' = cache
       ELSE \E r \in {run(query, k, page, per_page, opts, embed_ok, vec_answer,
                          lex_answer, hash_seed,
                          IF proc = "ready" THEN cache ELSE <<>>, now)} :
                /\ proc' = "ready"
                /\ response' = r.response
                /\ cache' = r.cache
    /\ UNCHANGED <<hash_seed, cache_max_size, now>>
    /\ UNCHANGED index_vars
    /\ held' = IF held = <<>> THEN held
               ELSE IF proc # "ready" THEN [held EXCEPT !.cached = FALSE]
               ELSE held_after(held,
                               _generate_cache_key(query, or_top_k(k), page,
                                                   per_page, opts),
                               response'.cache_hit, cache')

\* Time passes: exactly the TTL of a cache entry.
Wait ==
    /\ now + _cache_ttl <= MaxTicks * (_cache_ttl + 1)
    /\ now' = now + _cache_ttl
    /\ UNCHANGED <<proc, hash_seed, cache, cache_max_size, call, response>>
    /\ UNCHANGED index_vars
    /\ UNCHANGED held

SearchInit == IndexedInit /\ SearchIdle

SearchNext ==
    \/ \E seed \in HashSeeds, connected \in BOOLEAN : StartProcess(seed, connected)
    \/ \E q \in Queries, v \in VecHits, l \in LexHits : Merge(q, v, l)
    \/ \E q \in Queries, embed_ok \in BOOLEAN, va \in VecAnswers, la \in LexAnswers :
          Search(q, 0, embed_ok, va, la)

SpecSearch == SearchInit /\ [][SearchNext]_vars

ApiNext ==
    \/ \E seed \in HashSeeds, connected \in BOOLEAN : StartProcess(seed, connected)
    \/ \E q \in Queries, embed_ok \in BOOLEAN, va \in ApiVecAnswers,
          la \in ApiLexAnswers :
          Run(q, 0, 1, 10, NoOpts, embed_ok, va, la)
    \/ Tick

SpecApi == SearchInit /\ [][ApiNext]_vars

\* ========================================================= specifications
\* The page sizes explored at the entry point: none, and the default.
EntryPerPages == {0, 10}

EntryNext ==
    \/ \E q \in Queries, per_page \in EntryPerPages, connected \in BOOLEAN,
          embed_ok \in BOOLEAN, va \in ApiVecAnswers, la \in ApiLexAnswers :
          ModuleRun(q, 0, 1, per_page, NoOpts, connected, embed_ok, va, la)
    \/ Tick

SpecEntry == SearchInit /\ [][EntryNext]_vars

\* Scored chunks as merge_and_score builds them: the first two chunks of two
\* files, each at one of two scores.
SampleChunks ==
    {[chunk_id |-> indexed_chunk(p, idx),
      file_id |-> file_id(p, 0, Len(BaseBytes(p))),
      path |-> p, chunk_idx |-> idx, score |-> score] :
        p \in {<<"home", "a.txt">>, <<"home", "b.pdf">>}, idx \in {0, 1},
        score \in {Rat(1, 2), One}}

\* The lists of up to n sample chunks, no chunk twice.
RECURSIVE ChunkLists(_)
ChunkLists(n) ==
    IF n = 0 THEN {<<>>}
    ELSE ChunkLists(n - 1)
         \cup {Append(l, c) : l \in {x \in ChunkLists(n - 1) : Len(x) = n - 1},
                              c \in SampleChunks}

DistinctChunkLists ==
    {l \in ChunkLists(MaxChunks) :
        \A i, j \in DOMAIN l : i # j => l[i].chunk_id # l[j].chunk_id}

\* A retriever holding the arguments of a dedupe_by_file call to come.
DedupeInit ==
    /\ IndexedInit
    /\ proc = "ready"
    /\ hash_seed = 0
    /\ cache = <<>>
    /\ cache_max_size = _cache_max_size
    /\ now = 0
    /\ call \in {[op |-> "arguments", scored_chunks |-> l,
                   max_results_per_file |-> n] :
                     l \in DistinctChunkLists, n \in 0..MaxPerFile}
    /\ response = <<>>
    /\ held = <<>>

\* dedupe_by_file(scored_chunks, max_results_per_file)
Dedupe ==
    /\ call.op = "arguments"
    /\ call' = [call EXCEPT !.op = "dedupe_by_file"]
    /\ response' = dedupe_by_file(call.scored_chunks, call.max_results_per_file)
    /\ UNCHANGED <<proc, hash_seed, cache, cache_max_size, now>>
    /\ UNCHANGED index_vars
    /\ UNCHANGED held

SpecDedupe == DedupeInit /\ [][Dedupe]_vars

\* A vector answer with two chunks of a.txt and one chunk of each other file.
PagedVecAnswer ==
    Answer([c \in {ChunkA, indexed_chunk(<<"home", "a.txt">>, 1), ChunkB, ChunkC} |->
               IF c = ChunkA THEN Rat(9, 10)
               ELSE IF c = ChunkC THEN Rat(3, 10) ELSE Rat(6, 10)])

\* opts = {"max_results_per_file": n}
PerFileOpts(n) == [x \in {"max_results_per_file"} |-> n]

PagesNext ==
    \/ \E seed \in HashSeeds, connected \in BOOLEAN : StartProcess(seed, connected)
    \/ \E page \in 1..MaxPage, per_page \in 1..MaxPerPage :
          Run(<<"z">>, 0, page, per_page, NoOpts, TRUE, PagedVecAnswer,
              Answer(EmptyDict))
    \/ \E page \in {1, 2} :
          Run(<<"z">>, 2, page, 1, NoOpts, TRUE, PagedVecAnswer, Answer(EmptyDict))
    \/ \E n \in 2..MaxPerFile :
          Run(<<"z">>, 0, 1, 10, PerFileOpts(n), TRUE, PagedVecAnswer,
              Answer(EmptyDict))

SpecPages == SearchInit /\ [][PagesNext]_vars

\* A SearchAPI built over the indexed catalog, with some configured cache_size.
CacheInit ==
    /\ IndexedInit
    /\ proc = "ready"
    /\ hash_seed = 0
    /\ cache = <<>>
    /\ cache_max_size \in 0..MaxCacheSize
    /\ now = 0
    /\ call = NoCall
    /\ response = <<>>
    /\ held = <<>>

CacheNext ==
    \/ \E q \in Queries, page \in {1, 2} :
          Run(q, 0, page, 10, NoOpts, TRUE, Answer([c \in {ChunkA} |-> Rat(9, 10)]),
              Answer(EmptyDict))
    \/ Tick
    \/ Wait

SpecCache == CacheInit /\ [][CacheNext]_vars

\* n times the character "x"
Pad(n) == [i \in 1..n |-> "x"]

\* The chunk texts snippets are made of: short ones with and without the
\* words, whitespace runs, and long ones with the word at either end.
SnippetTexts ==
    { <<>>, <<"a", " ", "B">>, <<"a", " ", "\n", "b">>, <<"x", "a", "b", "x">>,
      Pad(3) \o <<" ", "b">>, Pad(LongText) \o <<" ", "b">>,
      <<"b", " ">> \o Pad(LongText) }

SnippetQueries == { <<>>, <<"b">>, <<"B">>, <<"a", " ", "b">>, <<"z">> }

\* snippet_radius: 0, 1, the default and the largest explored.
SnippetRadii == {0, 1, snippet_radius, MaxRadius}

\* A SearchAPI holding the arguments of a snippet to come.
SnippetInit ==
    /\ IndexedInit
    /\ proc = "ready"
    /\ hash_seed = 0
    /\ cache = <<>>
    /\ cache_max_size = _cache_max_size
    /\ now = 0
    /\ call \in {[op |-> "arguments", chunk_text |-> t, query |-> q, radius |-> r] :
                    t \in SnippetTexts, q \in SnippetQueries, r \in SnippetRadii}
    /\ response = <<>>
    /\ held = <<>>

\* The snippet of one search hit.
Snippet ==
    /\ call.op = "arguments"
    /\ call' = [call EXCEPT !.op = "hit_snippet"]
    /\ response' = hit_snippet(call.chunk_text, call.query, call.radius)
    /\ UNCHANGED <<proc, hash_seed, cache, cache_max_size, now>>
    /\ UNCHANGED index_vars
    /\ UNCHANGED held

SpecSnippet == SnippetInit /\ [][Snippet]_vars

Init == IndexInit /\ SearchIdle

Next == IndexNext

Spec == Init /\ [][Next]_vars

\* The roots and max_items given to single slices: one root, and two roots
\* of which one lies under the other.
SliceRoots == { <<ROOT>>, <<ROOT, <<"home", "docs">> >> }

SliceItems == {1, BigSlice}

\* Single slices called one after another on the persisted frontier.
SlicesNext ==
    \/ \E rs \in SliceRoots, mi \in SliceItems : SliceCall(rs, mi)
    \/ BeginSlice
    \/ ProcessItem(TRUE)
    \/ SaveSlice

SpecSlices == Init /\ [][SlicesNext]_vars

\* Complete runs seen commit by commit, with an edit between two runs.
CommitsNext ==
    \/ \E p \in EditablePaths : RewriteFile(p)
    \/ \E mi \in SliceSizes : StartIndex(<<ROOT>>, mi)
    \/ BeginSlice
    \/ ProcessOther
    \/ UpsertFile(TRUE)
    \/ InsertChunks
    \/ EmbedAndUpsert
    \/ FtsInsert
    \/ EndFile(TRUE)
    \/ EndSlice

SpecCommits == Init /\ [][CommitsNext]_vars

\* Complete runs seen commit by commit, where an insert of chunk rows may fail.
TxnNext ==
    \/ CommitsNext
    \/ \E n \in 0..MaxTokens : InsertChunksFails(n)

SpecTxn == Init /\ [][TxnNext]_vars

\* Complete runs in which an item may fail: the catalog raises, or the embedder
\* is down.
ErrorsNext ==
    \/ \E mi \in SliceSizes : StartIndex(<<ROOT>>, mi)
    \/ BeginSlice
    \/ ProcessItem(TRUE)
    \/ EmbedFails
    \/ ProcessItemRaises
    \/ EndSlice

SpecErrors == Init /\ [][ErrorsNext]_vars

\* The roots of complete runs: a tree, a tree with a root under a root, and
\* the tree whose directory is reachable through a symbolic link to itself.
CrawlRoots == { <<ROOT>>, <<ROOT, <<"home", "docs">> >>, <<MNT>> }

\* The max_items_per_slice arguments of complete runs.
CrawlSizes == {-1, 1, BigSlice}

CrawlNext ==
    \/ \E rs \in CrawlRoots, mi \in CrawlSizes : StartIndex(rs, mi)
    \/ BeginSlice
    \/ ProcessItem(TRUE)
    \/ EndSlice

\* The processing loop of run_bfs_slice takes the next item of the slice.
NextItem ==
    /\ pc = "items"
    /\ current_level # <<>>
    /\ pc' = pc
    /\ current_level' = Tail(current_level)

\* Complete runs whose process keeps running: a slice that can begin begins,
\* the processing loop takes its next item, a slice that can end ends.
SpecCrawl ==
    /\ Init
    /\ [][CrawlNext]_vars
    /\ WF_vars(BeginSlice)
    /\ WF_<<pc, current_level>>(NextItem)
    /\ WF_vars(EndSlice)

\* ======================================================= indexer properties
\* run_complete_index has returned and no file was edited since it started.
RunReturned == pc = "done" /\ dirty = {}

\* The bytes of file p now.
CurrentBytes(p) == FileBytes(p, version[p], variant[p])

\* The file_id the indexer computes for file p now.
CurrentFid(p) ==
    file_id(p, get_file_stats(CurrentBytes(p), version[p]).mtime,
            get_file_stats(CurrentBytes(p), version[p]).size)

\* File p lies under one of the roots of the current run.
UnderRoots(p) ==
    \E i \in DOMAIN roots :
        Len(roots[i]) <= Len(p) /\ SubSeq(p, 1, Len(roots[i])) = roots[i]

\* The crawl of the current run gets to path p: p is a root, or a child that
\* is neither hidden nor excluded of a directory the crawl gets to and lists.
RECURSIVE Reached(_)
Reached(p) ==
    \/ p \in Range(roots)
    \/ /\ Len(p) > 1
       /\ ~is_hidden(name(p))
       /\ ~_should_exclude(p)
       /\ LET parent == SubSeq(p, 1, Len(p) - 1)
          IN  is_dir(parent) /\ ~_should_exclude(parent) /\ Reached(parent)

\* The extracted text of file p has at least one token.
HasToken(p) ==
    LET text == _extract_text(p, CurrentBytes(p))
    IN  text # None /\ split(text) # <<>>

HasChunkRow(p) == \E r \in chunks : r.file_id = CurrentFid(p)

HasFtsRow(p) ==
    \E r \in chunks : /\ r.file_id = CurrentFid(p)
                      /\ \E i \in DOMAIN chunks_fts :
                            chunks_fts[i].chunk_id = r.chunk_id

HasVector(p) ==
    \E r \in chunks : /\ r.file_id = CurrentFid(p)
                      /\ \E v \in vectors : v.id = r.chunk_id

RepeatedRun == runs >= 2 /\ run_dirty = {} /\ roots = prev_roots

\* C2 as stated: a second complete index run over unchanged files inserts no
\* chunk rows and upserts no vectors (chunks_created = 0).
C2_RepeatedRunCreatesNothing ==
    (RunReturned /\ RepeatedRun) =>
        (total_stats.chunks_created = 0 /\ ingested = {})

\* C3 as stated: a second complete index run over unchanged files returns
\* files_processed = 0.
C3_RepeatedRunProcessesNoFile ==
    (RunReturned /\ RepeatedRun) => total_stats.files_processed = 0

\* C4 as stated: a chunk row whose vector is missing gets its vector from a
\* later complete index run in which embedder and vector store work, also
\* when the file is unchanged.
C4_RunRepairsMissingVectors ==
    (RunReturned /\ embedder_up) =>
        \A p \in FilePaths :
            Reached(p) =>
                \A r \in chunks :
                    r.file_id = CurrentFid(p) => \E v \in vectors : v.id = r.chunk_id

InUnit(x) == RLeq(Zero, x) /\ RLeq(x, One)

\* C6 as stated: every ScoreBreakdown merge_and_score returns has cosine, bm25,
\* exact and position_bonus in [0,1], final equal to the weighted sum, and
\* final in [0, 1 + exact_boost + early_pos_boost], also for a channel with a
\* single candidate or with equal raw scores.
C6_BreakdownInRange ==
    call.op = "merge_and_score" =>
        \A i \in DOMAIN response :
            LET b == response[i].score_breakdown
            IN  /\ InUnit(b.cosine)
                /\ InUnit(b.bm25)
                /\ InUnit(b.exact)
                /\ InUnit(b.position_bonus)
                /\ b.final = RAdd(RAdd(RMul(bm25_weight, b.bm25),
                                       RMul(cosine_weight, b.cosine)),
                                  RAdd(RMul(exact_boost, b.exact),
                                       RMul(early_pos_boost, b.position_bonus)))
                /\ RLeq(Zero, b.final)
                /\ RLeq(b.final, RAdd(One, RAdd(exact_boost, early_pos_boost)))

\* The last call fused vec = {A: 0.9, B: 0.6} and lex = {B: 10.0, C: 5.0} for a
\* query that earns no bonus.
FusionExample ==
    /\ call.op = "merge_and_score"
    /\ call.query = <<"z">>
    /\ call.vec_answer.hits = (ChunkA :> Rat(9, 10) @@ ChunkB :> Rat(6, 10))
    /\ call.lex_answer.hits = (ChunkB :> Rat(10, 1) @@ ChunkC :> Rat(5, 1))

\* The score breakdown of chunk cid in the response.
BreakdownOf(cid) ==
    response[CHOOSE i \in DOMAIN response : response[i].chunk_id = cid].score_breakdown

\* The position of chunk cid in the response.
RankOf(cid) == CHOOSE i \in DOMAIN response : response[i].chunk_id = cid

\* The normalized scores of the example: vec {A: 1, B: 0}, lex {B: 1, C: 0},
\* absent candidates 0.
FusionExampleNorms ==
    /\ {response[i].chunk_id : i \in DOMAIN response} = {ChunkA, ChunkB, ChunkC}
    /\ BreakdownOf(ChunkA).cosine = One /\ BreakdownOf(ChunkA).bm25 = Zero
    /\ BreakdownOf(ChunkB).cosine = Zero /\ BreakdownOf(ChunkB).bm25 = One
    /\ BreakdownOf(ChunkC).cosine = Zero /\ BreakdownOf(ChunkC).bm25 = Zero

\* C7 as stated: the example gives finals A = 0.45, B = 0.55, C = 0.55 and the
\* ranking B = C > A.
C7_FusionExampleAsStated ==
    FusionExample =>
        /\ FusionExampleNorms
        /\ BreakdownOf(ChunkA).final = Rat(45, 100)
        /\ BreakdownOf(ChunkB).final = Rat(55, 100)
        /\ BreakdownOf(ChunkC).final = Rat(55, 100)
        /\ RankOf(ChunkB) < RankOf(ChunkA)
        /\ RankOf(ChunkC) < RankOf(ChunkA)

\* C7 amended: the example gives finals A = 0.45, B = 0.55, C = 0 and the
\* ranking B > A > C.
C7_FusionExample ==
    FusionExample =>
        /\ FusionExampleNorms
        /\ BreakdownOf(ChunkA).final = Rat(45, 100)
        /\ BreakdownOf(ChunkB).final = Rat(55, 100)
        /\ BreakdownOf(ChunkC).final = Zero
        /\ [i \in DOMAIN response |-> response[i].chunk_id]
              = <<ChunkB, ChunkA, ChunkC>>

\* C7 witness: the example was fused and all three chunks were scored.
C7_Witness == FusionExample /\ Len(response) = 3

\* C8 as stated: a search that repeats the previous search (same query, same
\* answers of embedder, vector store and FTS engine, same index), in the same
\* or in another process, returns the identical ranked list.
C8_SameSearchSameResult ==
    [][(call.op = "search" /\ call' = call) => response' = response]_vars

\* The lexical-only ranking of the FTS candidates, in a process with the seed.
LexicalOnly(query, k, lex_answer, seed) ==
    take(dedupe_by_file(merge_and_score(query, EmptyDict,
                                        lexical_candidates(query, lex_answer),
                                        seed),
                        1),
         or_top_k(k))

\* C9 as stated: when the vector channel fails (no query embedding, vector
\* search error) and lexical recall succeeds, search returns the lexical-only
\* ranking of the FTS candidates.
C9_VectorFailureKeepsLexical ==
    (/\ call.op = "search"
     /\ ~call.embed_ok \/ ~call.vec_answer.ok
     /\ call.lex_answer.ok)
    => \E seed \in HashSeeds :
          response = LexicalOnly(call.query, call.k, call.lex_answer, seed)

\* C10 as stated: when both channels fail, run returns items = [], total_hits
\* = 0 and an error field; when the query merely matches nothing, the same
\* empty items and no error field.
C10_TotalFailureReportsError ==
    (call.op = "run" /\ ~response.cache_hit) =>
        /\ ((~call.embed_ok \/ ~call.vec_answer.ok) /\ ~call.lex_answer.ok)
           => /\ response.items = <<>>
              /\ response.total_hits = 0
              /\ "error" \in DOMAIN response
        /\ (/\ call.embed_ok
            /\ call.vec_answer = Answer(EmptyDict)
            /\ call.lex_answer = Answer(EmptyDict))
           => /\ response.items = <<>>
              /\ response.total_hits = 0
              /\ "error" \notin DOMAIN response

\* C11 as stated: the module-level run never raises to its caller, whatever
\* the arguments (per_page = 0 included) and whatever fails in the retriever or
\* in its construction: it returns a structured response, with error populated
\* and items = [] on failure.
C11_RunNeverRaises ==
    call.op = "module_run" =>
        /\ "raised" \notin DOMAIN response
        /\ {"query", "total_hits", "page", "per_page", "items"}
              \subseteq DOMAIN response
        /\ "error" \in DOMAIN response => response.items = <<>>
        /\ call.per_page = 0 => "error" \in DOMAIN response

\* The positions of the chunks of file f in a list of scored chunks.
OfFile(l, f) == {i \in DOMAIN l : l[i].file_id = f}

\* C12: dedupe_by_file with max_results_per_file = N >= 0 returns at most N
\* chunks per file_id, those being the N highest-scored chunks of that file,
\* and the returned list is sorted by score in descending order.
C12_DedupeKeepsBestPerFile ==
    call.op = "dedupe_by_file" =>
        LET given == call.scored_chunks
            N == call.max_results_per_file
            kept == {response[i].chunk_id : i \in DOMAIN response}
        IN  /\ \A i \in DOMAIN response :
                  \E j \in DOMAIN given : given[j] = response[i]
            /\ \A i, j \in DOMAIN response :
                  i < j => /\ response[i].chunk_id # response[j].chunk_id
                           /\ RLeq(response[j].score, response[i].score)
            /\ \A j \in DOMAIN given :
                  LET f == given[j].file_id
                  IN  /\ Cardinality(OfFile(response, f))
                            = Min(N, Cardinality(OfFile(given, f)))
                      /\ given[j].chunk_id \notin kept =>
                            \A i \in OfFile(response, f) :
                                RLeq(given[j].score, response[i].score)

\* C12 witness: a file with a better and a worse chunk was cut to its best.
C12_Witness ==
    /\ call.op = "dedupe_by_file"
    /\ call.max_results_per_file = 1
    /\ \E i, j \in DOMAIN call.scored_chunks :
          /\ call.scored_chunks[i].file_id = call.scored_chunks[j].file_id
          /\ RLess(call.scored_chunks[i].score, call.scored_chunks[j].score)
          /\ i < j
          /\ call.scored_chunks[j] \in Range(response)
          /\ call.scored_chunks[i] \notin Range(response)

\* The chunk ids among the answers of the last call that have metadata and
\* belong to file f: the ranked candidates of that file.
CandidatesOfFile(f) ==
    {c \in DOMAIN call.vec_answer.hits \cup DOMAIN call.lex_answer.hits :
        has_chunk_meta(c) /\ chunk_meta(c).file_id = f}

\* C13 as stated: run with opts max_results_per_file = N > 1 returns up to N
\* items of the same file: when a file has at least N chunks among the ranked
\* candidates, N of them appear in the results.
C13_PerFileOptionOverrides ==
    (/\ call.op = "run"
     /\ "max_results_per_file" \in DOMAIN call.opts
     /\ call.page = 1
     /\ "error" \notin DOMAIN response)
    => \A f \in {x.file_id : x \in files} :
          Cardinality(CandidatesOfFile(f)) >= call.opts["max_results_per_file"]
          => Cardinality({i \in DOMAIN response.items :
                             response.items[i].file_id = f})
               = call.opts["max_results_per_file"]

\* The hits run ranks for the last call: what the retriever finds, cut per file.
RankedHits ==
    search_hits_of(search(call.query, or_top_k(call.k), call.embed_ok,
                          call.vec_answer, call.lex_answer, hash_seed),
                   IF "max_results_per_file" \in DOMAIN call.opts
                   THEN call.opts["max_results_per_file"]
                   ELSE max_results_per_file)

\* ceil(t / p) for p >= 1
CeilDiv(t, p) == IF t % p = 0 THEN t \div p ELSE t \div p + 1

\* C14: for a ranked list of length T, per_page P >= 1 and page in
\* 1..total_pages, run returns items = ranked[(page-1)*P .. page*P),
\* total_hits = T, total_pages = ceil(T/P), has_next iff page < total_pages
\* and has_prev iff page > 1.
C14_Pagination ==
    (/\ call.op = "run"
     /\ call.per_page >= 1
     /\ call.page \in 1..CeilDiv(Len(RankedHits), call.per_page))
    => /\ "error" \notin DOMAIN response
       /\ response.items
             = SubSeq(RankedHits, (call.page - 1) * call.per_page + 1,
                      Min(call.page * call.per_page, Len(RankedHits)))
       /\ response.total_hits = Len(RankedHits)
       /\ response.total_pages = CeilDiv(Len(RankedHits), call.per_page)
       /\ response.has_next <=> call.page < CeilDiv(Len(RankedHits), call.per_page)
       /\ response.has_prev <=> call.page > 1

\* C14 witness: the second of three pages of one hit was returned.
C14_Witness ==
    /\ call.op = "run"
    /\ call.page = 2
    /\ call.per_page = 1
    /\ Len(RankedHits) = 3
    /\ response.items = <<RankedHits[2]>>
    /\ response.has_next
    /\ response.has_prev

\* The cache key of a call.
KeyOf(c) == _generate_cache_key(c.query, or_top_k(c.k), c.page, c.per_page, c.opts)

\* The positions of the cache entries that answer call c at time t: same key,
\* stored no more than 3600 s before.
ValidEntries(c, t) ==
    {i \in DOMAIN cache : cache[i].key = KeyOf(c) /\ t - cache[i].timestamp <= 3600}

\* C15: a run call is answered from the cache (cache_hit = true, the stored
\* items) if and only if the cache holds an entry stored for the same (query,
\* k, page, per_page, opts) no more than 3600 s before; a call that is not
\* answered from the cache and succeeds stores its result under its key; an
\* entry of another key is neither made nor changed by the call, and leaves
\* the cache only by eviction from a full cache.
C15_CacheHitIffStored ==
    [][now' = now =>
         /\ response'.cache_hit <=> ValidEntries(call', now) # {}
         /\ \A i \in ValidEntries(call', now) :
               response'.items = cache[i].result.items
         /\ (ValidEntries(call', now) = {} /\ "error" \notin DOMAIN response')
            => \E j \in DOMAIN cache' :
                  /\ cache'[j].key = KeyOf(call')
                  /\ cache'[j].timestamp = now
                  /\ cache'[j].result.items = response'.items
         /\ \A j \in DOMAIN cache' :
               cache'[j].key # KeyOf(call')
               => \E i \in DOMAIN cache : cache[i] = cache'[j]
         /\ \A i \in DOMAIN cache :
               (cache[i].key # KeyOf(call') /\ Len(cache) < cache_max_size)
               => \E j \in DOMAIN cache' : cache'[j] = cache[i]
      ]_vars

\* C15 witness: a call was answered from an entry stored exactly 3600 s before.
C15_Witness ==
    /\ call.op = "run"
    /\ response.cache_hit
    /\ now = 3600
    /\ \E i \in DOMAIN cache : cache[i].key = KeyOf(call) /\ cache[i].timestamp = 0

\* The entries of a cache, as (key, timestamp) pairs.
Stored(c) == {<<c[i].key, c[i].timestamp>> : i \in DOMAIN c}

\* C16 as stated: the cache never holds more than cache_size entries, and
\* storing a new result when the cache is full evicts exactly one entry, the
\* one with the oldest timestamp, for every configured cache_size >= 0.
C16_CacheBoundedOldestEvicted ==
    [][now' = now =>
         /\ Len(cache') <= cache_max_size
         /\ (/\ Len(cache) >= cache_max_size
             /\ \A i \in DOMAIN cache : cache[i].key # KeyOf(call'))
            => \E e \in Stored(cache) :
                  /\ \A x \in Stored(cache) : e[2] <= x[2]
                  /\ Stored(cache') = (Stored(cache) \ {e})
                                         \cup {<<KeyOf(call'), now>>}
      ]_vars

\* ========================================================= frontier properties

\* Whether a frontier holds in its queue a path that its seen map records
\* with the (device, inode) the path has now.
QueueHoldsSeen(f) ==
    \E i \in DOMAIN f.queue :
        /\ f.queue[i] \in DOMAIN f.seen
        /\ f.seen[f.queue[i]] = device_inode(f.queue[i])

\* C17 as stated: in every frontier state, in memory or saved, the queue holds
\* no path that seen records with the (device, inode) the path has now.
C17_QueueDisjointFromSeen ==
    /\ ~QueueHoldsSeen(frontier)
    /\ frontier_file # <<>> => ~QueueHoldsSeen(frontier_file[1])


\* C18 as stated: every run_complete_index that was started ends, with the
\* saved frontier queue empty.
C18_CompleteIndexTerminates ==
    (pc \in {"slice", "items"})
        ~> (pc = "done" /\ _load_frontier(frontier_file).queue = <<>>)

\* Complete runs with a positive max_items_per_slice end, with the saved
\* frontier queue empty.
PositiveSlicesTerminate ==
    (pc \in {"slice", "items"} /\ max_items > 0)
        ~> (pc = "done" /\ _load_frontier(frontier_file).queue = <<>>)

\* A complete run over the linked tree has ended, having visited /mnt once
\* for every number of links the system follows.
LinkedTreeCrawled ==
    /\ pc = "done"
    /\ roots = <<MNT>>
    /\ frontier.processed_dirs = MaxSymlinks + 1

\* ========================================================== snippet properties

\* Whether the phrase or one of the words of the query occurs in the text,
\* letter case aside.
Occurs(text, query) ==
    \/ contains(lower(text), lower(query))
    \/ \E w \in {split(lower(query))[i] : i \in DOMAIN split(lower(query))} :
          contains(lower(text), w)

\* C19 as stated: the positions make_snippet returns satisfy
\* 0 <= start <= end <= len(text), and when the query phrase or one of its
\* words occurs in the text, the snippet of the hit (cleaned, truncated to 200
\* characters) contains the phrase or a query word.
C19_SnippetBoundsAndMatch ==
    call.op = "hit_snippet" =>
        /\ 0 <= response.context_range[1]
        /\ response.context_range[1] <= response.context_range[2]
        /\ response.context_range[2] <= Len(call.chunk_text)
        /\ Occurs(call.chunk_text, call.query)
              => Occurs(response.snippet, call.query)

\* The positions alone: 0 <= start <= end <= len(text) for every text, query
\* and radius.
SnippetBounds ==
    call.op = "hit_snippet" =>
        /\ 0 <= response.context_range[1]
        /\ response.context_range[1] <= response.context_range[2]
        /\ response.context_range[2] <= Len(call.chunk_text)

\* The match is delivered whenever the radius is at most the default one.
SnippetMatchDefaultRadius ==
    (call.op = "hit_snippet" /\ call.radius <= snippet_radius
        /\ Occurs(call.chunk_text, call.query))
        => Occurs(response.snippet, call.query)

\* ========================================================== catalog readers

\* C20 as stated: in every committed state of the catalog, which is what a
\* reader on another connection sees, every chunk row has its FTS row.
C20_ReaderSeesChunksWithFts ==
    \A r \in chunks : \E i \in DOMAIN chunks_fts : chunks_fts[i].chunk_id = r.chunk_id

\* Between two _process_file calls every chunk row has its FTS row.
ChunksHaveFtsBetweenFiles ==
    in_file = <<>> =>
        \A r \in chunks : \E i \in DOMAIN chunks_fts : chunks_fts[i].chunk_id = r.chunk_id

\* A _process_file call seen commit by commit ends in the tables it is
\* modelled to leave as a whole.
StepsAgreeWithProcessFile ==
    (pc = "file.fts" /\ in_file.rows = <<>>) =>
        /\ files = in_file.result.files
        /\ chunks = in_file.result.chunks
        /\ chunks_fts = in_file.result.fts
        /\ vectors = in_file.result.vectors

\* C21 as stated: once an insert_chunks call has failed, no step makes its
\* delete or any of its new rows visible: the committed chunk rows stay as
\* they were before the call.
C21_FailedInsertLeavesRows ==
    [][txn # <<>> => chunks' = chunks]_vars

\* C22 as stated: a step of the slice in which the processing of an item
\* fails with an error (the catalog raises, the embedding fails) counts exactly
\* one error, appends exactly one entry to the errors of the frontier, and
\* leaves the rest of the slice to be processed.
C22_ItemErrorCountedOnce ==
    [][(ProcessItemRaises \/ EmbedFails) =>
          /\ stats'.errors = stats.errors + 1
          /\ Len(frontier'.errors) = Len(frontier.errors) + 1
          /\ current_level' = Tail(current_level)
          /\ pc' = "items"]_vars

\* An error that reaches the except branch of the slice is counted once.
RaisedErrorCountedOnce ==
    [][ProcessItemRaises =>
          /\ stats'.errors = stats.errors + 1
          /\ Len(frontier'.errors) = Len(frontier.errors) + 1
          /\ current_level' = Tail(current_level)
          /\ pc' = "items"]_vars

\* Every error of a finished slice is in the saved frontier.
ErrorsSaved ==
    (pc = "done" /\ frontier_file # <<>>) =>
       _load_frontier(frontier_file).errors = frontier.errors

\* Complete runs with slices of one item, of two items and of every item.
FifoSizes == {1, 2, BigSlice}

FifoNext ==
    \/ \E rs \in CrawlRoots, mi \in FifoSizes : StartIndex(rs, mi)
    \/ BeginSlice
    \/ ProcessItem(TRUE)
    \/ EndSlice

SpecFifo == Init /\ [][FifoNext]_vars

\* The breadth-first order of a tree: the paths in the order a first-in
\* first-out traversal dequeues them, the children of a directory enqueued
\* when it is dequeued for the first time.
RECURSIVE BreadthFirst(_, _)
BreadthFirst(pending, visited) ==
    IF pending = <<>> THEN <<>>
    ELSE LET p == Head(pending)
             kids == IF p \notin visited /\ exists(p) /\ is_dir(p)
                        /\ ~_should_exclude(p)
                     THEN enqueue_children(<<>>, iterdir(p)) ELSE <<>>
         IN  <<p>> \o BreadthFirst(Tail(pending) \o kids, visited \cup {p})

\* The entries of the frontier not processed yet, in the order of their
\* processing: the rest of the slice, then the queue.
Pending == current_level \o frontier.queue

\* s is the part of b from some position to some position.
IsWindow(s, b) ==
    \E i \in 1..(Len(b) + 1), j \in 0..Len(b) : s = SubSeq(b, i, j)

\* C23: the entries are processed first in, first out: a slice takes at most
\* max_items entries off the head of the queue, every processed entry is the
\* oldest one not processed, the children go to the end, and whatever the
\* slice size the entries waiting are a stretch of the one breadth-first order
\* of the roots.
C23_FifoWhateverSliceSize ==
    [][/\ (pc = "slice" /\ pc' = "items") =>
              /\ Len(current_level') <= max_items
              /\ Pending' = (IF _load_frontier(frontier_file).queue = <<>>
                             THEN seed_roots(<<>>, roots)
                             ELSE _load_frontier(frontier_file).queue)
       /\ (pc = "items" /\ pc' = "items") =>
              /\ current_level' = Tail(current_level)
              /\ \E kids \in {SubSeq(Pending', Len(Pending), Len(Pending'))} :
                    Pending' = Tail(Pending) \o kids
       /\ pc' \in {"slice", "items"} =>
              IsWindow(Pending', BreadthFirst(seed_roots(<<>>, roots'), {}))]_vars

C23_Witness ==
    /\ pc = "done"
    /\ max_items = 1
    /\ roots = <<ROOT>>
    /\ frontier.queue = <<>>
    /\ frontier.processed_files > 1
    /\ frontier.processed_dirs > 1

\* Complete runs over trees with files that are skipped, changed between the
\* runs, or refused by the catalog, and with a link chain that stops resolving.
SkipsNext ==
    \/ \E p \in EditablePaths : RewriteFile(p)
    \/ \E rs \in CrawlRoots, mi \in FifoSizes : StartIndex(rs, mi)
    \/ BeginSlice
    \/ ProcessItem(TRUE)
    \/ ProcessItemRaises
    \/ EndSlice

SpecSkips == Init /\ [][SkipsNext]_vars

\* The loop of the slice handles a dequeued entry that is not a directory to
\* list, was not seen before, and is not ingested.
NotPersistedStep ==
    /\ pc = "items"
    /\ current_level # <<>>
    /\ current_level' = Tail(current_level)
    /\ ~(exists(Head(current_level)) /\ is_dir(Head(current_level)))
    /\ ~(/\ Head(current_level) \in DOMAIN frontier.seen
         /\ frontier.seen[Head(current_level)] = device_inode(Head(current_level)))
    /\ Head(current_level) \notin ingested'

\* C24 as stated: a dequeued file entry that is not persisted counts once, as
\* a skip or as an error; a missing path counts as a skip.
C24_UnpersistedCountedOnce ==
    [][NotPersistedStep =>
          /\ stats'.files_skipped + stats'.errors
                = stats.files_skipped + stats.errors + 1
          /\ ~exists(Head(current_level)) =>
                stats'.files_skipped = stats.files_skipped + 1]_vars

\* A dequeued file that exists and is not persisted counts once.
ExistingUnpersistedCounted ==
    [][(NotPersistedStep /\ exists(Head(current_level))) =>
          stats'.files_skipped + stats'.errors
             = stats.files_skipped + stats.errors + 1]_vars

\* --------------------------------------------------- the chunker alone
\* The while loop of _chunk_text for a configuration max_tokens, overlap, at
\* position i with the list chunks built so far.  returns: whether the loop
\* ends; it is followed for fuel iterations.
RECURSIVE chunk_loop_with(_, _, _, _, _, _)
chunk_loop_with(words, max_tokens, overlap, i, chunks_list, fuel) ==
    IF ~(i < Len(words)) THEN [chunks |-> chunks_list, returns |-> TRUE]
    ELSE IF fuel = 0 THEN [chunks |-> chunks_list, returns |-> FALSE]
    ELSE IF strip(join(slice(words, i, i + max_tokens))) = <<>>
    THEN [chunks |-> chunks_list, returns |-> TRUE]
    ELSE chunk_loop_with(
             words, max_tokens, overlap, i + max_tokens - overlap,
             Append(chunks_list,
                    [idx |-> Len(chunks_list),
                     text |-> join(slice(words, i, i + max_tokens)),
                     token_start |-> i,
                     token_end |-> i + Len(slice(words, i, i + max_tokens))]),
             fuel - 1)

\* More iterations than a loop that ends takes: the position moves by at
\* least one token per iteration, up from 0 or down to -(tokens + max_tokens).
chunk_fuel(words, max_tokens) == Len(words) + max_tokens + 2

\* _chunk_text under a configuration max_tokens, overlap.
_chunk_text_with(text, max_tokens, overlap) ==
    chunk_loop_with(split(text), max_tokens, overlap, 0, <<>>,
                    chunk_fuel(split(text), max_tokens))

\* A text of n tokens.
RECURSIVE WordsText(_)
WordsText(n) ==
    IF n = 0 THEN <<>>
    ELSE IF n = 1 THEN <<"w">>
    ELSE WordsText(n - 1) \o <<" ", "w">>

ChunkTexts == {WordsText(n) : n \in 0..MaxWords} \cup {<<" ">>, <<" ", "w", " ">>}

ChunkInit ==
    /\ IndexedInit
    /\ proc = "ready"
    /\ hash_seed = 0
    /\ cache = <<>>
    /\ cache_max_size = _cache_max_size
    /\ now = 0
    /\ call \in {[op |-> "arguments", text |-> t, max_tokens |-> mt, overlap |-> ov] :
                    t \in ChunkTexts, mt \in 1..MaxChunkTokens,
                    ov \in 0..(MaxChunkTokens + 1)}
    /\ response = <<>>
    /\ held = <<>>

\* One call of _chunk_text.
ChunkText ==
    /\ call.op = "arguments"
    /\ call' = [call EXCEPT !.op = "_chunk_text"]
    /\ response' = _chunk_text_with(call.text, call.max_tokens, call.overlap)
    /\ UNCHANGED <<proc, hash_seed, cache, cache_max_size, now>>
    /\ UNCHANGED index_vars
    /\ UNCHANGED held

SpecChunk == ChunkInit /\ [][ChunkText]_vars

\* The chunks of a returned call under max_tokens > overlap are the windows
\* idx = 0..n-1 of step max_tokens - overlap, none empty, covering every token.
ChunkWindows(cs, T, max_tokens, overlap) ==
    /\ \A k \in 1..Len(cs) :
          /\ cs[k].idx = k - 1
          /\ cs[k].token_start = (k - 1) * (max_tokens - overlap)
          /\ cs[k].token_end = Min((k - 1) * (max_tokens - overlap) + max_tokens, T)
          /\ cs[k].token_end > cs[k].token_start
    /\ \A t \in 0..(T - 1) :
          \E k \in 1..Len(cs) : cs[k].token_start <= t /\ t < cs[k].token_end

\* C25 as stated: under max_tokens > overlap >= 0 the chunks are the windows
\* above, and two consecutive chunks share exactly overlap tokens unless the
\* later one is the last window and is truncated.
C25_ChunkWindowsAndOverlap ==
    (call.op = "_chunk_text" /\ call.max_tokens > call.overlap) =>
       /\ response.returns
       /\ ChunkWindows(response.chunks, Len(split(call.text)),
                       call.max_tokens, call.overlap)
       /\ \A k \in 1..(Len(response.chunks) - 1) :
             \/ response.chunks[k].token_end - response.chunks[k + 1].token_start
                   = call.overlap
             \/ /\ k + 1 = Len(response.chunks)
                /\ response.chunks[k + 1].token_end
                      - response.chunks[k + 1].token_start < call.max_tokens

\* The windows part holds, and two consecutive chunks share exactly overlap
\* tokens unless the earlier one is truncated.
ChunkWindowsShareUnlessTruncated ==
    (call.op = "_chunk_text" /\ call.max_tokens > call.overlap) =>
       /\ response.returns
       /\ ChunkWindows(response.chunks, Len(split(call.text)),
                       call.max_tokens, call.overlap)
       /\ \A k \in 1..(Len(response.chunks) - 1) :
             \/ response.chunks[k].token_end - response.chunks[k + 1].token_start
                   = call.overlap
             \/ response.chunks[k].token_end - response.chunks[k].token_start
                   < call.max_tokens

\* The chunker alone and the chunker of the modelled deployment agree.
ChunkLoopsAgree ==
    (call.op = "_chunk_text" /\ call.max_tokens = MaxTokens /\ call.overlap = Overlap) =>
       LET cs == _chunk_text(call.text, <<"p">>, "fid", 0)
       IN  /\ Len(cs) = Len(response.chunks)
           /\ \A k \in 1..Len(cs) :
                 /\ cs[k].idx = response.chunks[k].idx
                 /\ cs[k].text = response.chunks[k].text
                 /\ cs[k].token_start = response.chunks[k].token_start
                 /\ cs[k].token_end = response.chunks[k].token_end

\* C27 as stated: _chunk_text returns for every text, every max_tokens >= 1
\* and every overlap >= 0.
C27_ChunkingReturns ==
    call.op = "_chunk_text" => response.returns

\* _chunk_text returns whenever overlap differs from max_tokens or the text
\* has no token.
ChunkingReturnsUnlessNoProgress ==
    (call.op = "_chunk_text"
        /\ (call.overlap # call.max_tokens \/ split(call.text) = <<>>)) =>
       response.returns

\* With overlap = max_tokens and a token in the text the position never
\* moves: every iteration appends the same window.
ChunkingRepeatsFirstWindow ==
    (call.op = "_chunk_text" /\ ~response.returns) =>
       /\ call.overlap = call.max_tokens
       /\ \A k \in 1..Len(response.chunks) : response.chunks[k].token_start = 0

\* C26 as stated: the IndexStats run_complete_index returns count every
\* processed file, created chunk, skipped file and error once, however many
\* slices the run took: they are the counts of the indexer.
C26_TotalStatsCountOnce ==
    pc = "done" =>
       /\ total_stats = stats
       /\ total_stats.files_processed = frontier.processed_files

\* The counters of the indexer itself count every processed file once.
IndexerStatsCountOnce ==
    pc = "done" => stats.files_processed = frontier.processed_files

\* --------------------------------------------------- responses that are kept
\* Calls of run on one process, the caller keeping the dict of one of them.
HoldNext ==
    \/ \E q \in Queries, page \in {1, 2} :
          RunAndHold(q, 0, page, 10, NoOpts, TRUE,
                     Answer([c \in {ChunkA} |-> Rat(9, 10)]), Answer(EmptyDict))
    \/ \E q \in Queries, page \in {1, 2} :
          Run(q, 0, page, 10, NoOpts, TRUE,
              Answer([c \in {ChunkA} |-> Rat(9, 10)]), Answer(EmptyDict))
    \/ Tick

SpecHold == CacheInit /\ [][HoldNext]_vars

\* C28 as stated: no later call changes a response run has returned (after an
\* identical call served from the cache its cache_hit is still false), and a
\* call served from the cache leaves the stored entries as they were.
C28_ReturnedResponseNeverChanged ==
    [][/\ held # <<>> => held'.result = held.result
       /\ (response' # <<>> /\ response'.cache_hit) => cache' = cache]_vars

\* A later call changes nothing but cache_hit in a response run has returned.
HeldChangesOnlyCacheHit ==
    held # <<>> =>
       [held.result EXCEPT !.cache_hit = held.returned.cache_hit] = held.returned

\* Calls of run on one process while the index is reset and built again: the
\* stores answer from an empty index or from the indexed tree.
ReindexNext ==
    \/ \E q \in Queries, va \in {Answer(EmptyDict), Answer([c \in {ChunkA} |-> Rat(9, 10)])},
          la \in {Answer(EmptyDict), Answer([c \in {ChunkB} |-> Rat(10, 1)])} :
          Run(q, 0, 1, 10, NoOpts, TRUE, va, la)
    \/ Tick

SpecReindex == CacheInit /\ [][ReindexNext]_vars

\* The items run computes from what the stores answer at the call.
CurrentItems ==
    paginate(call.query, call.page, call.per_page,
             search_hits_of(search(call.query, or_top_k(call.k), call.embed_ok,
                                   call.vec_answer, call.lex_answer, hash_seed),
                            max_results_per_file),
             now).items

\* C29 as stated: the items of a response of run are computed from what the
\* stores hold at the call, also when the stores changed after an earlier
\* call with the same key.
C29_ResultsFromCurrentIndex ==
    (call.op = "run" /\ "error" \notin DOMAIN response) =>
       response.items = CurrentItems

\* A response that is not served from the cache has the current items.
FreshResponseIsCurrent ==
    (call.op = "run" /\ "error" \notin DOMAIN response /\ ~response.cache_hit) =>
       response.items = CurrentItems

\* --------------------------------------------------- pages out of range
\* Calls of run for a negative page, page 0 and a page past the last of a
\* search with three hits.
OutPages == {-1, 0, MaxPage + 1}

OutPagesNext ==
    \/ \E page \in OutPages, per_page \in {1, MaxPerPage} :
          Run(<<"z">>, 0, page, per_page, NoOpts, TRUE, PagedVecAnswer,
              Answer(EmptyDict))
    \/ Tick

SpecOutPages == CacheInit /\ [][OutPagesNext]_vars

\* The hits run finds for the last call, before the page is cut out.
CurrentHits ==
    search_hits_of(search(call.query, or_top_k(call.k), call.embed_ok,
                          call.vec_answer, call.lex_answer, hash_seed),
                   max_results_per_file)

\* C30 as stated: for a page outside 1..total_pages (0, negative, past the
\* last) run returns no item, and total_hits is the number of all hits.
C30_OutOfRangePageIsEmpty ==
    (/\ call.op = "run"
     /\ "error" \notin DOMAIN response
     /\ (call.page < 1 \/ call.page > response.total_pages)) =>
       /\ response.items = <<>>
       /\ response.total_hits = Len(CurrentHits)

\* Page 0 and the pages past the last have no item, and total_hits is the
\* number of all hits on every page.
PageZeroAndPastLastEmpty ==
    (call.op = "run" /\ "error" \notin DOMAIN response) =>
       /\ response.total_hits = Len(CurrentHits)
       /\ (call.page = 0 \/ call.page > response.total_pages) =>
             response.items = <<>>

====
